---- MODULE Spec2Model ----
(***************************************************************************)
(* Model of the Debug Player Framework backend core:                       *)
(*   - CacheHandler (python_backend/core/cache_handler.py): TTL + LRU cache *)
(*   - PlotManager  (python_backend/core/plot_manager.py): plugin registry  *)
(* get, set, delete, clear and cleanup_expired of CacheHandler, and         *)
(* register_plugin, unregister_plugin, subscribe_to_signal and              *)
(* unsubscribe_from_signal of PlotManager, hold the object's RLock from     *)
(* their first statement to their return, so each call is one atomic        *)
(* action and concurrent callers are the interleavings of these actions.    *)
(* Time is counted in whole seconds and sizes in bytes; the byte budget     *)
(* and the default TTL are scaled down.                                     *)
(***************************************************************************)
EXTENDS Integers, Sequences, FiniteSets, TLC

\* ------------------------------------------------------------------------
\* Bounds of the model
\* ------------------------------------------------------------------------
MaxOps == 4            \* number of cache calls in a behaviour
MaxSetGetOps == 3      \* number of cache calls in a behaviour of SetGetSpec
MaxTime == 2           \* last instant of the wall clock
max_size_bytes == 3    \* CacheHandler(max_size_mb): byte budget, scaled down
default_ttl == 1       \* CacheHandler(default_ttl): seconds, scaled down

\* Optional[T]: Nil is Python's None, Some(x) a present value
Nil == <<>>
Some(x) == <<x>>

Keys == {"k1", "k2", "k3"}
Values == {"a", "cc", "huge"}
None == -1
TtlArgs == {None, 0, 2}

\* ------------------------------------------------------------------------
\* CacheHandler state
\* ------------------------------------------------------------------------
VARIABLES
  cache,         \* OrderedDict[str, CacheEntry]: sequence of entries, first = oldest
  current_size,  \* self.current_size
  stats,         \* self.stats
  now,           \* time.time()
  ops,           \* number of cache calls made so far
  recency,       \* history: keys from least to most recently used (hit get / set)
  lastSet,       \* history: per key, the value of the most recent set call on it
                 \* and the instant at which the TTL of that call ends
  cacheOp        \* history: the last cache call, its arguments and its result

cacheVars == <<cache, current_size, stats, now, ops, recency, cacheOp>>

\* ------------------------------------------------------------------------
\* PlotManager state
\* ------------------------------------------------------------------------
VARIABLES
  plugins,             \* self.plugins: plugin name -> plugin object
  signals,             \* self.signals: signal name -> SignalInfo
  plugin_signals,      \* self.plugin_signals: plugin name -> set of signal names
  signal_subscribers,  \* self.signal_subscribers: signal name -> set of callbacks
  is_loaded,           \* plugin object -> its is_loaded property
  plugin_order,        \* the keys of self.plugin_signals in insertion order
  current_timestamp,   \* self.current_timestamp
  executor,            \* self.executor: the worker pool
  shutdownCall,        \* the position of the thread that runs shutdown()
  calls,               \* number of PlotManager calls made so far, where counted
  lastQuery,           \* history: the last request_data_update call and the one before
  pmOp                 \* history: the last PlotManager call, its inputs and result

\* the fields that only request_data_update and shutdown touch
queryVars == <<current_timestamp, executor, shutdownCall, calls, lastQuery>>

pmVars == <<plugins, signals, plugin_signals, signal_subscribers, is_loaded,
            plugin_order, current_timestamp, executor, shutdownCall, calls, lastQuery,
            pmOp>>

\* ------------------------------------------------------------------------
\* SignalValidator and PerformanceMonitor state
\* ------------------------------------------------------------------------
\* The validator keeps no state of its own. The monitor is an instance of
\* PerformanceMonitor used by itself; the timing calls that PlotManager
\* makes on its own monitor are not followed.
VARIABLES
  validatorOp,   \* history: the last SignalValidator call, its input and result
  monitor,       \* PerformanceMonitor: active_timers, operation_times, counters, ...
  monitorOp,     \* history: the last PerformanceMonitor call and its result
  queryCall      \* the request_data_update call in progress, followed step by step

auxVars == <<validatorOp, monitor, monitorOp, queryCall>>

vars == <<cache, current_size, stats, now, ops, recency, lastSet, cacheOp,
          plugins, signals, plugin_signals, signal_subscribers, is_loaded,
          plugin_order, current_timestamp, executor, shutdownCall, calls, lastQuery,
          pmOp, validatorOp, monitor, monitorOp, queryCall>>

\* _calculate_size: length of the pickled value. "huge" stands for any value
\* whose pickle is longer than the budget; a dict (the result map that
\* PlotManager caches) takes one unit plus one per item.
calculate_size(value) ==
  LET pickled == ToString(value) IN
  CASE pickled = "\"a\"" -> 1
    [] pickled = "\"cc\"" -> 2
    [] pickled = "\"huge\"" -> max_size_bytes + 1
    [] OTHER -> 1 + Cardinality(DOMAIN value)

CacheEntry(key, value, timestamp, ttl, size_bytes) ==
  [key |-> key, value |-> value, timestamp |-> timestamp, ttl |-> ttl,
   access_count |-> 0, size_bytes |-> size_bytes]

\* the handler's mutable fields as one record, so that methods compose
Self == [cache |-> cache, current_size |-> current_size, stats |-> stats]

KeysOf(c) == {c[i].key : i \in 1..Len(c)}
EntryOf(c, key) == c[CHOOSE i \in 1..Len(c) : c[i].key = key]
SumSizes(c) ==
  LET RECURSIVE S(_)
      S(i) == IF i = 0 THEN 0 ELSE c[i].size_bytes + S(i - 1)
  IN S(Len(c))

\* variant: an entry already counts as expired when its age equals its TTL
is_expired_at_ttl(entry, t) == entry.ttl # None /\ t - entry.timestamp >= entry.ttl

\* variant: the age is computed with the operands swapped
is_expired_swapped(entry, t) == entry.ttl # None /\ entry.timestamp - t > entry.ttl

\* entry.ttl is not None and time.time() - entry.timestamp > entry.ttl
is_expired(entry, t) == entry.ttl # None /\ t - entry.timestamp > entry.ttl

\* OrderedDict.pop(key)
pop(c, key) == SelectSeq(c, LAMBDA e : e.key # key)

\* variant: a hit leaves the entry where it is
move_to_end_skipped(c, key) == c

\* OrderedDict.move_to_end(key)
move_to_end(c, key) == Append(pop(c, key), EntryOf(c, key))

\* variant: the entry is removed without giving its bytes back
do_delete_keeps_size(self, key) ==
  IF key \in KeysOf(self.cache)
  THEN [self EXCEPT !.cache = pop(self.cache, key)]
  ELSE self

\* CacheHandler.delete, as a transformer of the handler's fields
do_delete(self, key) ==
  IF key \in KeysOf(self.cache)
  THEN [self EXCEPT !.cache = pop(self.cache, key),
                    !.current_size = @ - EntryOf(self.cache, key).size_bytes]
  ELSE self

\* CacheHandler._evict_lru: popitem(last=False)
evict_lru(self) ==
  IF Len(self.cache) > 0
  THEN [self EXCEPT !.cache = Tail(self.cache),
                    !.current_size = @ - Head(self.cache).size_bytes,
                    !.stats.evictions = @ + 1]
  ELSE self

\* the "make room" loop of CacheHandler.set
RECURSIVE make_room(_, _)
make_room(self, size_bytes) ==
  IF self.current_size + size_bytes > max_size_bytes /\ Len(self.cache) > 0
  THEN make_room(evict_lru(self), size_bytes)
  ELSE self

\* ttl or self.default_ttl
effective_ttl(ttl) == IF ttl = None \/ ttl = 0 THEN default_ttl ELSE ttl

\* variant: the old entry under the key is removed before the size check
do_set_deletes_first(self, key, value, ttl, t) ==
  LET size_bytes == calculate_size(value)
      s1 == do_delete(self, key)
  IN IF size_bytes > max_size_bytes THEN s1
     ELSE LET s2 == make_room(s1, size_bytes)
          IN [s2 EXCEPT !.cache = Append(s2.cache,
                            CacheEntry(key, value, t, effective_ttl(ttl), size_bytes)),
                        !.current_size = @ + size_bytes]

\* variant: the old entry under the key is only overwritten, its bytes stay
\* counted
do_set_overwrites(self, key, value, ttl, t) ==
  LET size_bytes == calculate_size(value) IN
  IF size_bytes > max_size_bytes THEN self
  ELSE LET s2 == make_room(self, size_bytes)
           entry == CacheEntry(key, value, t, effective_ttl(ttl), size_bytes)
       IN [s2 EXCEPT !.cache = IF key \in KeysOf(s2.cache)
                               THEN [i \in 1..Len(s2.cache) |->
                                       IF s2.cache[i].key = key THEN entry
                                       ELSE s2.cache[i]]
                               ELSE Append(s2.cache, entry),
                     !.current_size = @ + size_bytes]

\* CacheHandler.set, as a transformer of the handler's fields
do_set(self, key, value, ttl, t) ==
  LET size_bytes == calculate_size(value) IN
  IF size_bytes > max_size_bytes THEN self
  ELSE LET s1 == do_delete(self, key)
           s2 == make_room(s1, size_bytes)
       IN [s2 EXCEPT !.cache = Append(s2.cache,
                         CacheEntry(key, value, t, effective_ttl(ttl), size_bytes)),
                     !.current_size = @ + size_bytes]

\* history: move key to the most-recently-used end
Touch(r, key) == Append(SelectSeq(r, LAMBDA k : k # key), key)
Present(r, c) == SelectSeq(r, LAMBDA k : k \in KeysOf(c))

NoOp == [op |-> "none", key |-> "", value |-> "", ok |-> FALSE,
         result |-> "", outcome |-> "", n |-> 0, repeat |-> FALSE]

\* no set call was made on the key yet
NoSet == [called |-> FALSE, value |-> "", deadline |-> 0]

CacheInit ==
  /\ cache = <<>>
  /\ current_size = 0
  /\ stats = [hits |-> 0, misses |-> 0, evictions |-> 0, expired |-> 0]
  /\ now = 0
  /\ ops = 0
  /\ recency = <<>>
  /\ cacheOp = NoOp

Commit(self) ==
  /\ cache' = self.cache
  /\ current_size' = self.current_size
  /\ stats' = self.stats
  /\ ops' = ops + 1
  /\ now' = now

\* CacheHandler.get, as a transformer of the handler's fields: the fields
\* after the call, which branch was taken and the value returned
do_get(self, key, t) ==
  IF key \notin KeysOf(self.cache)
  THEN [self |-> [self EXCEPT !.stats.misses = @ + 1],
        outcome |-> "absent", value |-> Nil]
  ELSE LET entry == EntryOf(self.cache, key) IN
       IF is_expired(entry, t)
       THEN LET s1 == do_delete(self, key) IN
            [self |-> [s1 EXCEPT !.stats.expired = @ + 1, !.stats.misses = @ + 1],
             outcome |-> "expired", value |-> Nil]
       ELSE LET moved == move_to_end(self.cache, key)
                bumped == [moved EXCEPT ![Len(moved)].access_count = @ + 1]
            IN [self |-> [self EXCEPT !.cache = bumped, !.stats.hits = @ + 1],
                outcome |-> "hit", value |-> Some(entry.value)]

\* CacheHandler.get
get(key) ==
  \E r \in {do_get(Self, key, now)} :
  /\ Commit(r.self)
  /\ recency' = IF r.outcome = "hit" THEN Touch(recency, key)
                ELSE Present(recency, r.self.cache)
  /\ cacheOp' = [NoOp EXCEPT !.op = "get", !.key = key,
                             !.ok = (r.outcome = "hit"),
                             !.result = IF r.value = Nil THEN "None" ELSE r.value[1],
                             !.outcome = r.outcome]

\* CacheHandler.set
set(key, value, ttl) ==
  /\ LET s1 == do_set(Self, key, value, ttl, now)
         stored == calculate_size(value) <= max_size_bytes
     IN /\ Commit(s1)
        /\ recency' = IF stored THEN Present(Touch(recency, key), s1.cache)
                      ELSE recency
        /\ cacheOp' = [NoOp EXCEPT !.op = "set", !.key = key, !.value = value,
                                   !.ok = stored,
                                   !.repeat = (cacheOp.op = "set" /\ cacheOp.key = key
                                               /\ cacheOp.value = value),
                                   !.outcome = IF stored THEN "stored" ELSE "rejected",
                                   !.n = s1.stats.evictions - stats.evictions]

\* CacheHandler.delete
delete(key) ==
  /\ LET s1 == do_delete(Self, key) IN
     /\ Commit(s1)
     /\ recency' = Present(recency, s1.cache)
     /\ cacheOp' = [NoOp EXCEPT !.op = "delete", !.key = key,
                                !.ok = (key \in KeysOf(cache))]

\* CacheHandler.clear
clear ==
  /\ Commit([cache |-> <<>>, current_size |-> 0,
             stats |-> [hits |-> 0, misses |-> 0, evictions |-> 0, expired |-> 0]])
  /\ recency' = <<>>
  /\ cacheOp' = [NoOp EXCEPT !.op = "clear", !.ok = TRUE]

\* CacheHandler.cleanup_expired
RECURSIVE delete_all(_, _)
delete_all(self, keys) ==
  IF keys = <<>> THEN self
  ELSE delete_all([do_delete(self, Head(keys)) EXCEPT !.stats.expired = @ + 1],
                  Tail(keys))

\* variant: an entry counts as expired from the instant its age equals its ttl
expired_keys_at_ttl(c, t) ==
  LET exp == SelectSeq(c, LAMBDA e : e.ttl # None /\ t - e.timestamp >= e.ttl)
  IN [i \in 1..Len(exp) |-> exp[i].key]

expired_keys(c, t) ==
  LET exp == SelectSeq(c, LAMBDA e : is_expired(e, t))
  IN [i \in 1..Len(exp) |-> exp[i].key]

cleanup_expired ==
  /\ LET ek == expired_keys(cache, now)
         s1 == delete_all(Self, ek)
     IN /\ Commit(s1)
        /\ recency' = Present(recency, s1.cache)
        /\ cacheOp' = [NoOp EXCEPT !.op = "cleanup_expired", !.ok = TRUE, !.n = Len(ek)]

\* the wall clock advances between calls (time.time() is read by get, set
\* and cleanup_expired)
Tick ==
  /\ now < MaxTime
  /\ now' = now + 1
  /\ UNCHANGED <<cache, current_size, stats, ops, recency, cacheOp>>

\* ------------------------------------------------------------------------
\* Plugins offered to the PlotManager
\* ------------------------------------------------------------------------
\* Three plugin objects. A1 and A2 are instances of one class (BasePlugin.name
\* is the class name), B1 is of another class and declares a signal name that
\* A1 declares too.
PluginObjs == {"A1", "A2", "B1"}
PluginNames == {"A", "B"}
SignalNames == {"s1", "s2", "s3"}
Callbacks == {"cb1", "cb2"}

\* IPlugin.name
name_of(p) == IF p = "B1" THEN "B" ELSE "A"

NaN == -99             \* float('nan'), which every comparison answers False
Inf == 99              \* float('inf')

\* The value of an attribute, with its Python type: t is the type, and s, n
\* or items holds a string, a number or the members of a tuple or list. An
\* attribute that the object does not have is "missing".
PyValue(t, str, n, items) == [t |-> t, s |-> str, n |-> n, items |-> items]
PyNone == PyValue("NoneType", "", 0, <<>>)
Missing == PyValue("missing", "", 0, <<>>)
PyStr(str) == PyValue("str", str, 0, <<>>)
PyInt(n) == PyValue("int", "", n, <<>>)
PyFloat(n) == PyValue("float", "", n, <<>>)
PyTuple(items) == PyValue("tuple", "", 0, items)
PyList(items) == PyValue("list", "", 0, items)
\* a member of the enum SignalType
Member(str) == PyValue("SignalType", str, 0, <<>>)

SignalInfo(name, signal_type, units, description, range, rate, coords) ==
  [name |-> name, signal_type |-> signal_type, units |-> units,
   description |-> description, value_range |-> range,
   sampling_rate |-> rate, coordinate_system |-> coords]

SignalType == {"temporal", "spatial", "categorical", "boolean", "binary"}

\* the SignalInfo objects of the plugins, their optional fields as Nil or Some
Temporal(p, s) == SignalInfo(s, "temporal", "m/s", p, Some(<<0, 10>>), Some(10), Nil)
Spatial(p, s) == SignalInfo(s, "spatial", "m", p, Nil, Nil, Some("local"))
NoUnits(p, s) == SignalInfo(s, "temporal", "", p, Nil, Nil, Nil)

\* IPlugin.get_signals: the dict a plugin returns, in its iteration order
get_signals(p) ==
  CASE p = "A1" -> << [signal_name |-> "s1", signal_info |-> Temporal(p, "s1")],
                      [signal_name |-> "s2", signal_info |-> Spatial(p, "s2")] >>
    [] p = "A2" -> << [signal_name |-> "s2", signal_info |-> Temporal(p, "s2")],
                      [signal_name |-> "s3", signal_info |-> NoUnits(p, "s3")] >>
    [] OTHER    -> << [signal_name |-> "s1", signal_info |-> Temporal(p, "s1")],
                      [signal_name |-> "s3", signal_info |-> Temporal(p, "s3")] >>

\* the attributes of such a SignalInfo object as Python values
attributes(signal_info) ==
  SignalInfo(PyStr(signal_info.name), Member(signal_info.signal_type),
             PyStr(signal_info.units), PyStr(signal_info.description),
             IF signal_info.value_range = Nil THEN PyNone
             ELSE PyTuple(<<PyFloat(signal_info.value_range[1][1]),
                            PyFloat(signal_info.value_range[1][2])>>),
             IF signal_info.sampling_rate = Nil THEN PyNone
             ELSE PyFloat(signal_info.sampling_rate[1]),
             IF signal_info.coordinate_system = Nil THEN PyNone
             ELSE PyStr(signal_info.coordinate_system[1]))

\* not x
falsy(x) ==
  CASE x.t = "NoneType" -> TRUE
    [] x.t = "str" -> x.s = ""
    [] x.t \in {"int", "float"} -> x.n = 0
    [] x.t \in {"tuple", "list"} -> x.items = <<>>
    [] OTHER -> FALSE
\* isinstance(x, (int, float))
IsNumber(x) == x.t \in {"int", "float"}
\* a >= b and a <= b on numbers
py_ge(a, b) == a # NaN /\ b # NaN /\ a >= b
py_le(a, b) == a # NaN /\ b # NaN /\ a <= b

\* SignalValidator.validate_signal_info. Reading an attribute that the object
\* does not have raises, and the exception is answered with False.
validate_signal_info(signal_info) ==
  IF \E f \in DOMAIN signal_info : signal_info[f] = Missing THEN FALSE
  ELSE IF falsy(signal_info.name) \/ signal_info.name.t # "str" THEN FALSE
  ELSE IF signal_info.signal_type.t # "SignalType" THEN FALSE
  ELSE IF falsy(signal_info.units) \/ signal_info.units.t # "str" THEN FALSE
  ELSE IF falsy(signal_info.description) \/ signal_info.description.t # "str" THEN FALSE
  ELSE IF /\ signal_info.value_range # PyNone
          /\ \/ signal_info.value_range.t # "tuple"
             \/ Len(signal_info.value_range.items) # 2
       THEN FALSE
  ELSE IF /\ signal_info.value_range # PyNone
          /\ \/ ~IsNumber(signal_info.value_range.items[1])
             \/ ~IsNumber(signal_info.value_range.items[2])
       THEN FALSE
  ELSE IF /\ signal_info.value_range # PyNone
          /\ py_ge(signal_info.value_range.items[1].n, signal_info.value_range.items[2].n)
       THEN FALSE
  ELSE IF /\ signal_info.sampling_rate # PyNone
          /\ \/ ~IsNumber(signal_info.sampling_rate)
             \/ py_le(signal_info.sampling_rate.n, 0)
       THEN FALSE
  ELSE IF signal_info.signal_type = Member("spatial") /\ falsy(signal_info.coordinate_system)
       THEN FALSE
  ELSE TRUE

\* the declared signals of p whose metadata is valid
ValidSignalsOf ==
  [p \in PluginObjs |->
     {get_signals(p)[i].signal_name : i \in
        {j \in 1..Len(get_signals(p)) :
           validate_signal_info(attributes(get_signals(p)[j].signal_info))}}]
ValidSignals(p) == ValidSignalsOf[p]

\* dict helpers
Put(f, k, v) == [x \in DOMAIN f \cup {k} |-> IF x = k THEN v ELSE f[x]]
Drop(f, S) == [x \in DOMAIN f \ S |-> f[x]]
EmptyDict == <<>>

\* the manager's mutable fields as one record, so that methods compose;
\* ret is the value the method returns, unloaded the plugin objects whose
\* unload() ran to completion during the call, registered the signal names
\* passed to on_signal_registered during the call
PM == [plugins |-> plugins, signals |-> signals, plugin_signals |-> plugin_signals,
       signal_subscribers |-> signal_subscribers, is_loaded |-> is_loaded,
       plugin_order |-> plugin_order, ret |-> FALSE, unloaded |-> {},
       registered |-> <<>>]

\* the order of a dict's keys after d[k] = v and after del d[k]
PutKey(order, k) == IF \E i \in 1..Len(order) : order[i] = k THEN order
                    ELSE Append(order, k)
DropKey(order, k) == SelectSeq(order, LAMBDA x : x # k)

\* Outcomes of the calls the manager makes into plugin and client code
LoadOutcomes == {"true", "false", "raise"}
CallOutcomes == {"ok", "raise"}

\* variant: the plugin leaves the registry but its signals stay in the index
do_unregister_plugin_keeps_signals(self, plugin_name, unload, cb_unloaded) ==
  IF plugin_name \notin DOMAIN self.plugins
  THEN [self EXCEPT !.ret = FALSE]
  ELSE
    LET plugin == self.plugins[plugin_name]
        s1 == [self EXCEPT !.plugin_signals = Drop(@, {plugin_name}),
                           !.plugin_order = DropKey(@, plugin_name)]
    IN IF unload = "raise"
       THEN [s1 EXCEPT !.ret = FALSE]
       ELSE LET s2 == [s1 EXCEPT !.is_loaded[plugin] = FALSE,
                                 !.unloaded = @ \cup {plugin},
                                 !.plugins = Drop(@, {plugin_name})]
            IN [s2 EXCEPT !.ret = (cb_unloaded # "raise")]

\* variant: an unknown name is reported as unregistered
do_unregister_plugin_unknown_ok(self, plugin_name, unload, cb_unloaded) ==
  IF plugin_name \notin DOMAIN self.plugins
  THEN [self EXCEPT !.ret = TRUE]
  ELSE
    LET plugin == self.plugins[plugin_name]
        owned == IF plugin_name \in DOMAIN self.plugin_signals
                 THEN self.plugin_signals[plugin_name] ELSE {}
        s1 == [self EXCEPT !.signals = Drop(@, owned),
                           !.signal_subscribers = Drop(@, owned),
                           !.plugin_signals = Drop(@, {plugin_name}),
                           !.plugin_order = DropKey(@, plugin_name)]
    IN IF unload = "raise"
       THEN [s1 EXCEPT !.ret = FALSE]
       ELSE LET s2 == [s1 EXCEPT !.is_loaded[plugin] = FALSE,
                                 !.unloaded = @ \cup {plugin},
                                 !.plugins = Drop(@, {plugin_name})]
            IN [s2 EXCEPT !.ret = (cb_unloaded # "raise")]

\* PlotManager.unregister_plugin, as a transformer of the manager's fields.
\* unload: what plugin.unload() does; cb_unloaded: what on_plugin_unloaded does.
do_unregister_plugin(self, plugin_name, unload, cb_unloaded) ==
  IF plugin_name \notin DOMAIN self.plugins
  THEN [self EXCEPT !.ret = FALSE]
  ELSE
    LET plugin == self.plugins[plugin_name]
        owned == IF plugin_name \in DOMAIN self.plugin_signals
                 THEN self.plugin_signals[plugin_name] ELSE {}
        s1 == [self EXCEPT !.signals = Drop(@, owned),
                           !.signal_subscribers = Drop(@, owned),
                           !.plugin_signals = Drop(@, {plugin_name}),
                           !.plugin_order = DropKey(@, plugin_name)]
    IN IF unload = "raise"
       THEN [s1 EXCEPT !.ret = FALSE]
       ELSE LET s2 == [s1 EXCEPT !.is_loaded[plugin] = FALSE,
                                 !.unloaded = @ \cup {plugin},
                                 !.plugins = Drop(@, {plugin_name})]
            IN [s2 EXCEPT !.ret = (cb_unloaded # "raise")]

\* variant: the metadata of a declared signal is not validated
RECURSIVE register_signals_unvalidated(_, _, _, _)
register_signals_unvalidated(self, plugin_name, decl, sig_cb) ==
  IF decl = <<>> THEN [pm |-> self, raised |-> FALSE]
  ELSE LET signal_name == Head(decl).signal_name
           signal_info == Head(decl).signal_info
           s1 == [self EXCEPT
                    !.signals = Put(@, signal_name, signal_info),
                    !.plugin_signals[plugin_name] = @ \cup {signal_name},
                    !.registered = Append(@, signal_name)]
       IN IF sig_cb = 1 THEN [pm |-> s1, raised |-> TRUE]
          ELSE register_signals_unvalidated(s1, plugin_name, Tail(decl),
                                            IF sig_cb = 0 THEN 0 ELSE sig_cb - 1)

\* the signal registration loop of register_plugin. sig_cb: the call of
\* on_signal_registered that raises (0: none does, or no callback is set).
\* Yields the fields and whether the loop was left by an exception.
RECURSIVE register_signals(_, _, _, _)
register_signals(self, plugin_name, decl, sig_cb) ==
  IF decl = <<>> THEN [pm |-> self, raised |-> FALSE]
  ELSE LET signal_name == Head(decl).signal_name
           signal_info == Head(decl).signal_info
       IN IF validate_signal_info(attributes(signal_info))
          THEN LET s1 == [self EXCEPT
                            !.signals = Put(@, signal_name, signal_info),
                            !.plugin_signals[plugin_name] = @ \cup {signal_name},
                            !.registered = Append(@, signal_name)]
               IN IF sig_cb = 1 THEN [pm |-> s1, raised |-> TRUE]
                  ELSE register_signals(s1, plugin_name, Tail(decl),
                                        IF sig_cb = 0 THEN 0 ELSE sig_cb - 1)
          ELSE register_signals(self, plugin_name, Tail(decl), sig_cb)

\* variant: the plugin is entered in the registry before load() is tried
do_register_plugin_adds_first(self, plugin, env) ==
  LET plugin_name == name_of(plugin)
      s0 == IF plugin_name \in DOMAIN self.plugins
            THEN do_unregister_plugin(self, plugin_name, env.unload, env.cb_unloaded)
            ELSE self
      s1 == [s0 EXCEPT !.plugins = Put(@, plugin_name, plugin),
                       !.plugin_signals = Put(@, plugin_name, {}),
                            !.plugin_order = PutKey(@, plugin_name)]
  IN IF env.load # "true"
     THEN [s1 EXCEPT !.ret = FALSE]
     ELSE
       LET s2 == [s1 EXCEPT !.is_loaded[plugin] = TRUE]
       IN IF env.get_signals = "raise"
          THEN [s2 EXCEPT !.ret = FALSE]
          ELSE LET r == register_signals(s2, plugin_name, get_signals(plugin), env.sig_cb)
               IN IF r.raised THEN [r.pm EXCEPT !.ret = FALSE]
                  ELSE [r.pm EXCEPT !.ret = (env.cb_loaded # "raise")]

\* PlotManager.register_plugin, as a transformer of the manager's fields.
\* env: the outcomes of plugin.load(), of the old plugin's unload(), of
\* plugin.get_signals() and of the three callbacks.
do_register_plugin(self, plugin, env) ==
  LET plugin_name == name_of(plugin)
      s0 == IF plugin_name \in DOMAIN self.plugins
            THEN do_unregister_plugin(self, plugin_name, env.unload, env.cb_unloaded)
            ELSE self
  IN IF env.load # "true"
     THEN [s0 EXCEPT !.ret = FALSE]
     ELSE
       LET s1 == [s0 EXCEPT !.is_loaded[plugin] = TRUE,
                            !.plugins = Put(@, plugin_name, plugin),
                            !.plugin_signals = Put(@, plugin_name, {}),
                            !.plugin_order = PutKey(@, plugin_name)]
       IN IF env.get_signals = "raise"
          THEN [s1 EXCEPT !.ret = FALSE]
          ELSE LET r == register_signals(s1, plugin_name, get_signals(plugin), env.sig_cb)
               IN IF r.raised THEN [r.pm EXCEPT !.ret = FALSE]
                  ELSE [r.pm EXCEPT !.ret = (env.cb_loaded # "raise")]

Envs == [load : LoadOutcomes, unload : CallOutcomes, get_signals : CallOutcomes,
         sig_cb : 0..2, cb_loaded : CallOutcomes, cb_unloaded : CallOutcomes]

NoEnv == [load |-> "true", unload |-> "ok", get_signals |-> "ok", sig_cb |-> 0,
          cb_loaded |-> "ok", cb_unloaded |-> "ok"]

\* the inputs that matter to a call: outcomes of calls that are not made are
\* fixed, so that one call is one step
RegisterEnvs(plugin) ==
  {e \in Envs :
     /\ name_of(plugin) \notin DOMAIN plugins =>
          e.unload = "ok" /\ e.cb_unloaded = "ok"
     /\ e.unload = "raise" => e.cb_unloaded = "ok"
     /\ e.load # "true" => e.get_signals = "ok"
     /\ (e.load # "true" \/ e.get_signals = "raise") =>
          e.sig_cb = 0 /\ e.cb_loaded = "ok"
     /\ e.sig_cb <= Cardinality(ValidSignals(plugin))
     /\ e.sig_cb # 0 => e.cb_loaded = "ok"}

UnregisterEnvs(plugin_name) ==
  {e \in Envs :
     /\ e.load = "true" /\ e.get_signals = "ok" /\ e.sig_cb = 0 /\ e.cb_loaded = "ok"
     /\ plugin_name \notin DOMAIN plugins => e.unload = "ok" /\ e.cb_unloaded = "ok"
     /\ e.unload = "raise" => e.cb_unloaded = "ok"}

\* what a listener does from inside its callback: by calls
\* subscribe_to_signal or unsubscribe_from_signal(signal_name, callback)
NoAct == [by |-> "", op |-> "none", signal_name |-> "", callback |-> ""]

NoPmOp == [op |-> "none", kwargs |-> {}, raised |-> "none", attributes |-> {},
           registered |-> <<>>,
           plugin_name |-> "", plugin |-> "", signal_name |-> "",
           callback |-> "", env |-> NoEnv, ret |-> FALSE, unloaded |-> {},
           was_registered |-> FALSE,
           timestamp |-> 0, request |-> Nil, qenv |-> [slow |-> {}, raise |-> {},
                                                      cb_raise |-> {}],
           key |-> "", cached |-> Nil, hit |-> FALSE, futures |-> <<>>,
           outcomes |-> <<>>, calls |-> <<>>, seen |-> Nil, caught |-> FALSE,
           result |-> EmptyDict, act |-> NoAct, subscribers |-> EmptyDict]

\* no request_data_update call was made yet
NoQuery == [called |-> FALSE, timestamp |-> 0, request |-> Nil, key |-> "",
            known |-> {}, before |-> Nil]

PMInit ==
  /\ plugins = EmptyDict
  /\ signals = EmptyDict
  /\ plugin_signals = EmptyDict
  /\ signal_subscribers = EmptyDict
  /\ is_loaded = [p \in PluginObjs |-> FALSE]
  /\ plugin_order = <<>>
  /\ current_timestamp = 0
  /\ executor = [pending |-> 0, running |-> 0, stopped |-> FALSE,
                 on |-> [p \in PluginObjs |-> 0], queued |-> <<>>]
  /\ shutdownCall = [pc |-> "idle", names |-> <<>>, were |-> {}]
  /\ calls = 0
  /\ lastQuery = NoQuery
  /\ pmOp = NoPmOp

PMCommit(self) ==
  /\ plugins' = self.plugins
  /\ signals' = self.signals
  /\ plugin_signals' = self.plugin_signals
  /\ signal_subscribers' = self.signal_subscribers
  /\ is_loaded' = self.is_loaded
  /\ plugin_order' = self.plugin_order

\* PlotManager.register_plugin
register_plugin(plugin, env) ==
  \E s1 \in {do_register_plugin(PM, plugin, env)} :
  /\ PMCommit(s1)
  /\ pmOp' = [NoPmOp EXCEPT !.op = "register_plugin", !.plugin = plugin,
                            !.plugin_name = name_of(plugin), !.env = env,
                            !.ret = s1.ret, !.unloaded = s1.unloaded,
                            !.registered = s1.registered,
                            !.was_registered = (name_of(plugin) \in DOMAIN plugins)]

\* PlotManager.unregister_plugin
unregister_plugin(plugin_name, env) ==
  \E s1 \in {do_unregister_plugin(PM, plugin_name, env.unload, env.cb_unloaded)} :
  /\ PMCommit(s1)
  /\ pmOp' = [NoPmOp EXCEPT !.op = "unregister_plugin", !.plugin_name = plugin_name,
                            !.env = env, !.ret = s1.ret, !.unloaded = s1.unloaded,
                            !.was_registered = (plugin_name \in DOMAIN plugins)]

\* PlotManager.subscribe_to_signal
subscribe_to_signal(signal_name, callback) ==
  /\ plugins' = plugins /\ signals' = signals /\ plugin_signals' = plugin_signals
  /\ is_loaded' = is_loaded /\ plugin_order' = plugin_order
  /\ IF signal_name \notin DOMAIN signals
     THEN /\ signal_subscribers' = signal_subscribers
          /\ pmOp' = [NoPmOp EXCEPT !.op = "subscribe_to_signal",
                         !.signal_name = signal_name, !.callback = callback,
                         !.ret = FALSE]
     ELSE LET subs == IF signal_name \in DOMAIN signal_subscribers
                      THEN signal_subscribers[signal_name] ELSE {}
          IN /\ signal_subscribers' =
                  Put(signal_subscribers, signal_name, subs \cup {callback})
             /\ pmOp' = [NoPmOp EXCEPT !.op = "subscribe_to_signal",
                            !.signal_name = signal_name, !.callback = callback,
                            !.ret = TRUE]

\* PlotManager.unsubscribe_from_signal
unsubscribe_from_signal(signal_name, callback) ==
  /\ plugins' = plugins /\ signals' = signals /\ plugin_signals' = plugin_signals
  /\ is_loaded' = is_loaded /\ plugin_order' = plugin_order
  /\ IF signal_name \in DOMAIN signal_subscribers
     THEN LET subs == signal_subscribers[signal_name] \ {callback} IN
          /\ signal_subscribers' =
               IF subs = {} THEN Drop(signal_subscribers, {signal_name})
               ELSE Put(signal_subscribers, signal_name, subs)
          /\ pmOp' = [NoPmOp EXCEPT !.op = "unsubscribe_from_signal",
                         !.signal_name = signal_name, !.callback = callback,
                         !.ret = TRUE]
     ELSE /\ signal_subscribers' = signal_subscribers
          /\ pmOp' = [NoPmOp EXCEPT !.op = "unsubscribe_from_signal",
                         !.signal_name = signal_name, !.callback = callback,
                         !.ret = FALSE]

\* PlotManager.get_available_signals
get_available_signals == signals

\* PlotManager.get_plugin_signals
get_plugin_signals(plugin_name) ==
  IF plugin_name \in DOMAIN plugin_signals THEN plugin_signals[plugin_name] ELSE {}

\* ------------------------------------------------------------------------
\* Plugin data and PlotManager.request_data_update
\* ------------------------------------------------------------------------
max_workers == 4       \* ThreadPoolExecutor(max_workers=4)
query_ttl == 1         \* cache.set(..., ttl=300): seconds, scaled down
MaxCalls == 4          \* number of PlotManager calls in a behaviour of QuerySpec
MaxPending == 5        \* abandoned plugin calls that have not finished yet

\* data timestamps are in tenths of a second: 50 is t = 5.0
Timestamps == {50, 51}
QueryTimestamps == {50}
\* the signals argument: omitted (None) or a list of names
QueryRequests == {Nil, Some(<<>>), Some(<<"s1">>), Some(<<"s2", "s3">>),
                  Some(<<"s1", "s1", "s1", "s1", "s3">>)}
\* the subscriptions that clients ask for
QuerySubscriptions == {<<"s1", "cb1">>, <<"s3", "cb1">>, <<"s3", "cb2">>}

\* the order of str values
SignalOrder == <<"s1", "s2", "s3">>
Rank(n) == CHOOSE i \in 1..Len(SignalOrder) : SignalOrder[i] = n
CallbackOrder == <<"cb1", "cb2">>

\* variant: the names are left in the caller's order
sorted_skipped(names) == names

\* sorted(names)
RECURSIVE sorted(_)
sorted(names) ==
  IF names = <<>> THEN <<>>
  ELSE LET x == Head(names)
           rest == sorted(Tail(names))
           k == Cardinality({i \in 1..Len(rest) : Rank(rest[i]) < Rank(x)})
       IN SubSeq(rest, 1, k) \o <<x>> \o SubSeq(rest, k + 1, Len(rest))

\* hashlib.md5(text).hexdigest(): the digest is stood for by the digested
\* text, two texts have one digest only if they are equal
md5(text) == "md5:" \o text

\* CacheHandler.create_key(timestamp, signals=names): str(args) followed by
\* str(sorted(kwargs.items())), digested
create_key(timestamp, names) ==
  md5(ToString(<<timestamp>>) \o ToString(<< <<"signals", names>> >>))

\* Python's "signals or default": None and the empty list are both falsy
or_else(given, default) ==
  IF given = Nil \/ given[1] = <<>> THEN default ELSE given[1]

\* "if cached_data:": None and the empty dict are both falsy
truthy(cached_data) == cached_data # Nil /\ cached_data[1] # EmptyDict

\* the rows of the data frame a plugin loads; value holds the columns
Row(timestamp, base) ==
  [timestamp |-> timestamp, value |-> [n \in SignalNames |-> base + Rank(n)]]

data(p) ==
  CASE p = "A1" -> <<Row(48, 10), Row(53, 20)>>
    [] p = "A2" -> <<Row(49, 30), Row(50, 40)>>
    [] OTHER    -> <<Row(45, 50), Row(51, 60)>>

\* BasePlugin._get_time_column: the frame of A2 has no column with one of
\* the known time column names
get_time_column(p) == IF p = "A2" THEN Nil ELSE Some("timestamp")

abs(x) == IF x < 0 THEN -x ELSE x

\* variant: the last row that is not later than the timestamp
idxmin_not_after(rows, timestamp) ==
  IF \A i \in 1..Len(rows) : rows[i].timestamp > timestamp THEN 1
  ELSE CHOOSE i \in 1..Len(rows) :
         /\ rows[i].timestamp <= timestamp
         /\ \A j \in 1..Len(rows) :
              rows[j].timestamp <= timestamp => rows[j].timestamp <= rows[i].timestamp

\* time_diff.idxmin(): the first row at the least distance
idxmin(rows, timestamp) ==
  CHOOSE i \in 1..Len(rows) :
    \A j \in 1..Len(rows) :
      \/ abs(rows[i].timestamp - timestamp) < abs(rows[j].timestamp - timestamp)
      \/ /\ abs(rows[i].timestamp - timestamp) = abs(rows[j].timestamp - timestamp)
         /\ i <= j

\* the names in plugin._signals
declared(p) == {get_signals(p)[i].signal_name : i \in 1..Len(get_signals(p))}
info_of(p, signal) ==
  get_signals(p)[CHOOSE i \in 1..Len(get_signals(p)) :
                   get_signals(p)[i].signal_name = signal].signal_info

\* BasePlugin.get_data_for_timestamp: None, or the sample of the closest row
get_data_for_timestamp(p, signal, timestamp, loaded) ==
  IF ~loaded THEN Nil
  ELSE IF signal \notin declared(p) THEN Nil
  ELSE IF get_time_column(p) = Nil THEN Nil
  ELSE LET row == data(p)[idxmin(data(p), timestamp)]
       IN Some([timestamp |-> row.timestamp, value |-> row.value[signal],
                units |-> info_of(p, signal).units])

\* list(self.signals.keys()): the index is kept without its insertion order,
\* the names are listed in the order of str
signal_keys(self) == SelectSeq(SignalOrder, LAMBDA n : n \in DOMAIN self.signals)

\* the plugin at which the loop over self.plugin_signals.items() breaks
first_owner(self, signal_name) ==
  LET owners == SelectSeq(self.plugin_order,
                          LAMBDA n : signal_name \in self.plugin_signals[n])
  IN IF owners = <<>> THEN Nil ELSE Some(self.plugins[Head(owners)])

\* the dispatch loop: one future per requested name that is in the index
\* and has an owner, in the order of the request
RECURSIVE submit_all(_, _)
submit_all(self, target_signals) ==
  IF target_signals = <<>> THEN <<>>
  ELSE LET signal_name == Head(target_signals)
           rest == submit_all(self, Tail(target_signals))
       IN IF signal_name \in DOMAIN self.signals
             /\ first_owner(self, signal_name) # Nil
          THEN <<[signal_name |-> signal_name,
                  plugin |-> first_owner(self, signal_name)[1]]>> \o rest
          ELSE rest

\* variant: every query dispatches to a pool of its own
free_workers_own_pool(ex) == max_workers

\* The worker pool. pending counts the plugin calls whose future.result
\* timed out and that have not finished: they keep their worker (or their
\* place in the queue) after the query has returned. running counts those
\* of them that a worker thread is executing.
free_workers(ex) ==
  IF ex.pending >= max_workers THEN 0 ELSE max_workers - ex.pending

\* what future.result(timeout=1.0) yields for each future, in submission
\* order. env.slow: the plugins whose calls take longer than the timeout,
\* env.raise: those whose calls raise. A call submitted while no worker is
\* free waits in the pool's queue behind calls that do not finish, so its
\* future times out too.
RECURSIVE run_calls(_, _, _, _, _)
run_calls(futures, free, env, timestamp, loaded) ==
  IF futures = <<>> THEN <<>>
  ELSE LET f == Head(futures)
           state == IF free = 0 THEN "timeout"
                    ELSE IF f.plugin \in env.slow THEN "timeout"
                    ELSE IF f.plugin \in env.raise THEN "raised"
                    ELSE "done"
           left == IF free > 0 /\ state = "timeout" THEN free - 1 ELSE free
       IN <<[signal_name |-> f.signal_name, plugin |-> f.plugin, state |-> state,
             started |-> (free > 0),
             data |-> IF state = "done"
                      THEN get_data_for_timestamp(f.plugin, f.signal_name, timestamp,
                                                  loaded[f.plugin])
                      ELSE Nil]>>
          \o run_calls(Tail(futures), left, env, timestamp, loaded)

\* variant: a result of None is stored under its name like any other
collect_keeps_none(outcomes) ==
  LET got == {i \in 1..Len(outcomes) : outcomes[i].state = "done"}
  IN [n \in {outcomes[i].signal_name : i \in got} |->
        LET d == outcomes[CHOOSE i \in got : outcomes[i].signal_name = n].data
        IN IF d = Nil THEN [timestamp |-> 0, value |-> 0, units |-> "None"] ELSE d[1]]

\* variant: the result of a call that timed out is stored when it arrives
collect_late(outcomes) ==
  LET got == {i \in 1..Len(outcomes) :
                \/ outcomes[i].state = "done" /\ outcomes[i].data # Nil
                \/ outcomes[i].state = "timeout"}
  IN [n \in {outcomes[i].signal_name : i \in got} |->
        LET d == outcomes[CHOOSE i \in got : outcomes[i].signal_name = n].data
        IN IF d = Nil THEN [timestamp |-> 0, value |-> 0, units |-> "late"] ELSE d[1]]

\* the collection loop: signal_data[signal_name] = data for every future
\* that returned something other than None
collect(outcomes) ==
  LET got == {i \in 1..Len(outcomes) :
                outcomes[i].state = "done" /\ outcomes[i].data # Nil}
  IN [n \in {outcomes[i].signal_name : i \in got} |->
        outcomes[CHOOSE i \in got : outcomes[i].signal_name = n].data[1]]

\* the (signal, callback) pairs _notify_subscribers visits
AllPairs ==
  [i \in 1..(Len(SignalOrder) * Len(CallbackOrder)) |->
     <<SignalOrder[((i - 1) \div Len(CallbackOrder)) + 1],
       CallbackOrder[((i - 1) % Len(CallbackOrder)) + 1]>>]

notify_pairs(signal_data, subscribers) ==
  SelectSeq(AllPairs, LAMBDA pr : /\ pr[1] \in DOMAIN signal_data
                                  /\ pr[1] \in DOMAIN subscribers
                                  /\ pr[2] \in subscribers[pr[1]])

\* variant: the exception of a callback ends the notification
RECURSIVE notify_subscribers_unguarded(_, _, _, _)
notify_subscribers_unguarded(pairs, signal_data, timestamp, cb_raise) ==
  IF pairs = <<>> THEN <<>>
  ELSE LET call == [callback |-> Head(pairs)[2], signal_name |-> Head(pairs)[1],
                    data |-> signal_data[Head(pairs)[1]], timestamp |-> timestamp,
                    raised |-> (Head(pairs)[2] \in cb_raise)]
       IN IF call.raised THEN <<call>>
          ELSE <<call>> \o notify_subscribers_unguarded(Tail(pairs), signal_data,
                                                        timestamp, cb_raise)

\* PlotManager._notify_subscribers: the calls made, each inside its own
\* try/except. cb_raise: the callbacks that raise.
RECURSIVE notify_subscribers(_, _, _, _)
notify_subscribers(pairs, signal_data, timestamp, cb_raise) ==
  IF pairs = <<>> THEN <<>>
  ELSE <<[callback |-> Head(pairs)[2], signal_name |-> Head(pairs)[1],
          data |-> signal_data[Head(pairs)[1]], timestamp |-> timestamp,
          raised |-> (Head(pairs)[2] \in cb_raise)]>>
       \o notify_subscribers(Tail(pairs), signal_data, timestamp, cb_raise)

\* the element of a one-element set: binds an intermediate result
Only(S) == CHOOSE x \in S : TRUE

\* what the plugin calls and the subscribers' callbacks of one query do
NoQueryEnv == [slow |-> {}, raise |-> {}, cb_raise |-> {}]

\* the value stored under the key, as a callback looking into the manager's
\* cache finds it
peek(ch, key) ==
  IF key \in KeysOf(ch.cache)
  THEN Some(EntryOf(ch.cache, key).value)
  ELSE Nil

\* variant: the subscribers are notified first, the cache is written last
notify_then_cache(ch, subscribers, cache_key, signal_data, cur, cb_raise, t) ==
  LET made == notify_subscribers(notify_pairs(signal_data, subscribers),
                                  signal_data, cur, cb_raise)
      written == do_set(ch, cache_key, signal_data, query_ttl, t)
  IN [cache |-> written, calls |-> made, seen |-> peek(ch, cache_key)]

\* "Cache the result" and "Notify subscribers" of request_data_update: the
\* cache afterwards, the calls made to the subscribers, and what these calls
\* find in the cache under the key of the query
cache_then_notify(ch, subscribers, cache_key, signal_data, cur, cb_raise, t) ==
  LET written == do_set(ch, cache_key, signal_data, query_ttl, t)
      made == notify_subscribers(notify_pairs(signal_data, subscribers),
                                  signal_data, cur, cb_raise)
  IN [cache |-> written, calls |-> made, seen |-> peek(written, cache_key)]

\* the calls that the collection loop has abandoned stay with the pool: on
\* counts, for each plugin object, its calls that a worker is executing, and
\* queued holds the plugins of the calls that wait for a worker
RECURSIVE abandon(_, _)
abandon(ex, outcomes) ==
  IF outcomes = <<>> THEN ex
  ELSE LET o == Head(outcomes)
           ex1 == IF o.state # "timeout" THEN ex
                  ELSE IF o.started
                       THEN [ex EXCEPT !.on[o.plugin] = @ + 1]
                       ELSE [ex EXCEPT !.queued = Append(@, o.plugin)]
       IN abandon(ex1, Tail(outcomes))

\* PlotManager.request_data_update, as a transformer of the manager's cache
\* (ch), worker pool (ex) and current_timestamp (cur); the registry (self) is
\* only read. t is time.time(). caught: the outer "except Exception" ran.
do_request_data_update(self, ch, ex, cur, timestamp, given, env, t) ==
  LET cache_key == create_key(timestamp, sorted(or_else(given, <<>>)))
      base(g) == [cache |-> g.self, executor |-> ex, current_timestamp |-> cur,
                  key |-> cache_key, cached |-> g.value, hit |-> FALSE,
                  futures |-> <<>>, outcomes |-> <<>>, calls |-> <<>>,
                  seen |-> Nil, caught |-> FALSE, ret |-> EmptyDict]
      \* the path after a cache miss, from the dispatch loop on
      miss(s1, futures) ==
        IF ex.stopped /\ futures # <<>>
        THEN \* executor.submit raises RuntimeError after shutdown
             [s1 EXCEPT !.caught = TRUE]
        ELSE Only({ Only({ Only({
               [s1 EXCEPT
                  !.futures = futures,
                  !.outcomes = outcomes,
                  !.executor.pending =
                     @ + Cardinality({i \in 1..Len(outcomes) :
                                        outcomes[i].state = "timeout"}),
                  !.executor.running =
                     @ + Cardinality({i \in 1..Len(outcomes) :
                                        /\ outcomes[i].state = "timeout"
                                        /\ outcomes[i].started}),
                  !.executor.on = abandon(ex, outcomes).on,
                  !.executor.queued = abandon(ex, outcomes).queued,
                  !.cache = done.cache,
                  !.calls = done.calls,
                  !.seen = done.seen,
                  !.ret = signal_data]
               : done \in {cache_then_notify(s1.cache, self.signal_subscribers,
                                             cache_key, signal_data,
                                             s1.current_timestamp, env.cb_raise, t)} })
               : signal_data \in {collect(outcomes)} })
             : outcomes \in {run_calls(futures, free_workers(ex), env, timestamp,
                                       self.is_loaded)} })
  IN Only({ IF truthy(g.value)
            THEN [base(g) EXCEPT !.hit = TRUE, !.ret = g.value[1]]
            ELSE miss([base(g) EXCEPT !.current_timestamp = timestamp],
                      submit_all(self, or_else(given, signal_keys(self))))
            : g \in {do_get(ch, cache_key, t)} })

\* PlotManager.request_data_update
request_data_update(timestamp, given, env) ==
  \E r \in {do_request_data_update(PM, Self, executor, current_timestamp,
                                   timestamp, given, env, now)} :
  /\ r.executor.pending <= MaxPending
  /\ cache' = r.cache.cache
  /\ current_size' = r.cache.current_size
  /\ stats' = r.cache.stats
  /\ executor' = r.executor
  /\ current_timestamp' = r.current_timestamp
  /\ pmOp' = [NoPmOp EXCEPT !.op = "request_data_update", !.timestamp = timestamp,
                            !.request = given, !.key = r.key,
                            !.qenv = IF r.hit \/ r.caught THEN NoQueryEnv ELSE env,
                            !.cached = r.cached, !.hit = r.hit,
                            !.futures = r.futures, !.outcomes = r.outcomes,
                            !.calls = r.calls, !.seen = r.seen, !.caught = r.caught,
                            !.result = r.ret]
  /\ UNCHANGED <<plugins, signals, plugin_signals, signal_subscribers, is_loaded,
                 plugin_order, shutdownCall>>

\* the plugins and the signals a query would dispatch calls for, and the
\* callbacks it could reach
dispatched(given) == submit_all(PM, or_else(given, signal_keys(PM)))
dispatched_plugins(given) ==
  {dispatched(given)[i].plugin : i \in 1..Len(dispatched(given))}
reachable_callbacks(given) ==
  UNION {signal_subscribers[n] :
           n \in {dispatched(given)[i].signal_name : i \in 1..Len(dispatched(given))}
                 \cap DOMAIN signal_subscribers}

\* an abandoned plugin call finishes and gives its worker back
CallFinishes ==
  /\ executor.pending > 0
  /\ \E p \in PluginObjs :
       /\ executor.on[p] > 0
       /\ executor' = [executor EXCEPT
                         !.pending = @ - 1,
                         \* the worker takes the next call of the queue, if any
                         !.running = IF executor.pending > executor.running
                                     THEN @ ELSE @ - 1,
                         !.on = IF executor.queued = <<>>
                                THEN [@ EXCEPT ![p] = @ - 1]
                                ELSE [[@ EXCEPT ![p] = @ - 1]
                                        EXCEPT ![Head(executor.queued)] = @ + 1],
                         !.queued = IF @ = <<>> THEN @ ELSE Tail(@)]
  /\ UNCHANGED <<plugins, signals, plugin_signals, signal_subscribers, is_loaded,
                 plugin_order, current_timestamp, shutdownCall, calls, lastQuery, pmOp>>

\* ------------------------------------------------------------------------
\* listeners that call back into the manager: the lock is reentrant, so a
\* callback may subscribe and unsubscribe while _notify_subscribers runs
\* ------------------------------------------------------------------------
\* subscribe_to_signal, as a transformer of signal_subscribers
do_subscribe(subscribers, known, signal_name, callback) ==
  IF signal_name \notin DOMAIN known THEN subscribers
  ELSE Put(subscribers, signal_name,
           (IF signal_name \in DOMAIN subscribers THEN subscribers[signal_name]
            ELSE {}) \cup {callback})

\* unsubscribe_from_signal, as a transformer of signal_subscribers
do_unsubscribe(subscribers, signal_name, callback) ==
  IF signal_name \notin DOMAIN subscribers THEN subscribers
  ELSE IF subscribers[signal_name] \ {callback} = {}
       THEN Drop(subscribers, {signal_name})
       ELSE Put(subscribers, signal_name, subscribers[signal_name] \ {callback})

\* the body of the callback act.by
reenter(subscribers, known, act) ==
  IF act.op = "subscribe"
  THEN do_subscribe(subscribers, known, act.signal_name, act.callback)
  ELSE IF act.op = "unsubscribe"
       THEN do_unsubscribe(subscribers, act.signal_name, act.callback)
       ELSE subscribers

\* the callbacks of a set, in the order the loop visits them
in_order(callbacks) == SelectSeq(CallbackOrder, LAMBDA c : c \in callbacks)

\* the size of the set object under the iterator: the set is changed in
\* place, and is empty once unsubscribe_from_signal has deleted its entry
size_of_set(subscribers, signal_name, used) ==
  IF signal_name \in DOMAIN subscribers THEN Cardinality(subscribers[signal_name])
  ELSE 0

\* `for callback in self.signal_subscribers[signal_name]`: todo are the
\* callbacks not visited yet, used is the size of the set when the loop
\* began. Fetching the next callback raises RuntimeError (Set changed size
\* during iteration) when the size differs, also after the last callback.
RECURSIVE visit_set(_, _, _, _, _, _, _, _)
visit_set(st, signal_name, todo, used, value, timestamp, known, act) ==
  IF size_of_set(st.subscribers, signal_name, used) # used
  THEN [st EXCEPT !.raised = TRUE]
  ELSE IF todo = <<>> THEN st
  ELSE visit_set(
         [st EXCEPT
            !.calls = Append(@, [callback |-> Head(todo), signal_name |-> signal_name,
                                 data |-> value, timestamp |-> timestamp,
                                 raised |-> FALSE]),
            !.subscribers = IF Head(todo) = act.by THEN reenter(@, known, act) ELSE @],
         signal_name, Tail(todo), used, value, timestamp, known, act)

\* PlotManager._notify_subscribers with a listener that does act: the
\* subscriptions afterwards, the calls made, and whether RuntimeError left
\* the loops
RECURSIVE notify_reentrant(_, _, _, _, _, _)
notify_reentrant(st, names, signal_data, timestamp, known, act) ==
  IF names = <<>> \/ st.raised THEN st
  ELSE LET n == Head(names)
           after == IF n \in DOMAIN st.subscribers
                    THEN visit_set(st, n, in_order(st.subscribers[n]),
                                   Cardinality(st.subscribers[n]), signal_data[n],
                                   timestamp, known, act)
                    ELSE st
       IN notify_reentrant(after, Tail(names), signal_data, timestamp, known, act)

\* PlotManager.request_data_update when the listener act.by does act in its
\* callback and every plugin call and callback returns: the notification is
\* the last statement before the return, and a RuntimeError that leaves it
\* is caught by the outer "except Exception", which returns {}
request_data_update_reentrant(timestamp, given, act) ==
  \E r \in {do_request_data_update(PM, Self, executor, current_timestamp,
                                   timestamp, given, NoQueryEnv, now)} :
  \E n \in {IF r.hit \/ r.caught
             THEN [subscribers |-> signal_subscribers, calls |-> <<>>, raised |-> FALSE]
             ELSE notify_reentrant([subscribers |-> signal_subscribers,
                                    calls |-> <<>>, raised |-> FALSE],
                                   SelectSeq(SignalOrder,
                                             LAMBDA x : x \in DOMAIN r.ret),
                                   r.ret, r.current_timestamp, signals, act)} :
  /\ r.executor.pending <= MaxPending
  /\ cache' = r.cache.cache
  /\ current_size' = r.cache.current_size
  /\ stats' = r.cache.stats
  /\ executor' = r.executor
  /\ current_timestamp' = r.current_timestamp
  /\ signal_subscribers' = n.subscribers
  /\ pmOp' = [NoPmOp EXCEPT !.op = "request_data_update", !.timestamp = timestamp,
                            !.request = given, !.key = r.key,
                            !.cached = r.cached, !.hit = r.hit,
                            !.futures = r.futures, !.outcomes = r.outcomes,
                            !.calls = n.calls, !.seen = r.seen,
                            !.caught = r.caught \/ n.raised,
                            !.result = IF n.raised THEN EmptyDict ELSE r.ret,
                            !.act = act, !.subscribers = signal_subscribers]
  /\ UNCHANGED <<plugins, signals, plugin_signals, is_loaded, plugin_order,
                 shutdownCall>>

\* ------------------------------------------------------------------------
\* request_data_update, one step of the calling thread at a time
\* ------------------------------------------------------------------------
\* finished: for each future of the call, in submission order, whether its
\* plugin call finishes within the second that the caller waits for it;
\* waiter: the plugin of a register_plugin call that is at `with self._lock:`
NoQueryCall == [pc |-> "idle", timestamp |-> 0, request |-> Nil, env |-> NoQueryEnv,
                finished |-> <<>>, i |-> 0, waiter |-> Nil]

\* the futures that the call waits for (none on a cache hit), each with
\* whether it is done in time
in_time(timestamp, given, env) ==
  LET r == do_request_data_update(PM, Self, executor, current_timestamp, timestamp,
                                  given, env, now)
  IN [i \in 1..Len(r.outcomes) |-> r.outcomes[i].state # "timeout"]

\* variant: future.result() without a timeout returns only when the call has
\* finished
wait_without_timeout(finished) == finished

\* future.result(timeout=1.0) comes back: at once with the result or the
\* exception of a call that has finished, with TimeoutError after a second
\* otherwise
wait_ends(finished) == TRUE

\* `with self._lock:` is entered: no other call holds the lock
query_begin(timestamp, given, env) ==
  /\ queryCall.pc = "idle"
  /\ executor.pending + Len(dispatched(given)) <= MaxPending
  /\ queryCall' = [pc |-> "collect", timestamp |-> timestamp, request |-> given,
                   env |-> env, finished |-> in_time(timestamp, given, env), i |-> 1,
                   waiter |-> queryCall.waiter]
  /\ UNCHANGED <<cacheVars, lastSet, pmVars, validatorOp, monitor, monitorOp>>

\* one turn of `for signal_name, future in futures.items()`: the wait for
\* one future is over
query_wait ==
  /\ queryCall.pc = "collect"
  /\ queryCall.i <= Len(queryCall.finished)
  /\ wait_ends(queryCall.finished[queryCall.i])
  /\ queryCall' = [queryCall EXCEPT !.i = @ + 1]
  /\ UNCHANGED <<cacheVars, lastSet, pmVars, validatorOp, monitor, monitorOp>>

\* the rest of the call: the result is cached, the listeners are told, the
\* value is returned and the lock is released
query_return ==
  /\ queryCall.pc = "collect"
  /\ queryCall.i > Len(queryCall.finished)
  /\ request_data_update(queryCall.timestamp, queryCall.request, queryCall.env)
  /\ calls' = calls + 1
  /\ queryCall' = [NoQueryCall EXCEPT !.waiter = queryCall.waiter]
  /\ UNCHANGED <<now, ops, recency, cacheOp, lastSet, lastQuery, validatorOp, monitor,
                 monitorOp>>

\* the steps of the thread that is inside request_data_update
QueryStep == query_wait \/ query_return

\* another thread calls register_plugin and comes to `with self._lock:`
register_arrives(plugin) ==
  /\ queryCall.waiter = Nil
  /\ calls' = calls + 1
  /\ queryCall' = [queryCall EXCEPT !.waiter = Some(plugin)]
  /\ UNCHANGED <<cacheVars, lastSet, plugins, signals, plugin_signals,
                 signal_subscribers, is_loaded, plugin_order, current_timestamp,
                 executor, shutdownCall, lastQuery, pmOp, validatorOp, monitor,
                 monitorOp>>

\* the lock is free: the waiting register_plugin call takes it and runs
register_proceeds ==
  /\ queryCall.pc = "idle"
  /\ queryCall.waiter # Nil
  /\ register_plugin(queryCall.waiter[1], NoEnv)
  /\ queryCall' = [queryCall EXCEPT !.waiter = Nil]
  /\ UNCHANGED <<cacheVars, lastSet, current_timestamp, executor, shutdownCall, calls,
                 lastQuery, validatorOp, monitor, monitorOp>>

NoValidatorOp == [op |-> "none"]

\* ------------------------------------------------------------------------
\* PerformanceMonitor
\* ------------------------------------------------------------------------
deque_maxlen == 2      \* deque(maxlen=1000) of PerformanceMetrics, scaled down
MaxMonitorCalls == 5   \* number of monitor calls in a behaviour
MaxClock == 2          \* last instant of time.perf_counter()
Operations == {"op1", "op2"}
MaxHistories == {1, 3}
MetricValues == {7}

NoMonitorOp == [op |-> "none", operation |-> "", active |-> FALSE, ret |-> 0, n |-> 0]
\* no monitor has been constructed yet
NewMonitor == [constructed |-> FALSE, max_history |-> 0, clock |-> 0, start_time |-> 0,
               active_timers |-> <<>>, operation_times |-> <<>>,
               custom_metrics |-> <<>>, counters |-> <<>>]

\* f[k] of a defaultdict: the default where the key is missing
GetOr(f, k, default) == IF k \in DOMAIN f THEN f[k] ELSE default
SetKey(f, k, v) == [x \in DOMAIN f \cup {k} |-> IF x = k THEN v ELSE f[x]]
DelKey(f, k) == [x \in DOMAIN f \ {k} |-> f[x]]

\* deque.append with maxlen: the oldest entry leaves a full deque
deque_append(times, duration_ms) ==
  IF Len(times) >= deque_maxlen
  THEN SubSeq(times, 2, Len(times)) \o <<duration_ms>>
  ELSE times \o <<duration_ms>>

\* PerformanceMonitor.__init__
do_init(max_history) ==
  [NewMonitor EXCEPT !.constructed = TRUE, !.max_history = max_history]

\* PerformanceMonitor.start_timing
do_start_timing(self, operation) ==
  [self EXCEPT !.active_timers = SetKey(@, operation, self.clock)]

\* variant: a call without an active timer is counted
do_end_timing_counts(self, operation) ==
  IF operation \notin DOMAIN self.active_timers
  THEN [self |-> [self EXCEPT !.counters =
                    SetKey(@, operation \o "_count",
                           GetOr(@, operation \o "_count", 0) + 1)],
        ret |-> 0]
  ELSE LET duration_ms == self.clock - self.active_timers[operation]
       IN [self |-> [self EXCEPT
                       !.active_timers = DelKey(@, operation),
                       !.operation_times =
                          SetKey(@, operation,
                                 deque_append(GetOr(@, operation, <<>>), duration_ms)),
                       !.counters =
                          SetKey(@, operation \o "_count",
                                 GetOr(@, operation \o "_count", 0) + 1)],
           ret |-> duration_ms]

\* PerformanceMonitor.end_timing: the monitor afterwards and the value returned
do_end_timing(self, operation) ==
  IF operation \notin DOMAIN self.active_timers
  THEN [self |-> self, ret |-> 0]
  ELSE LET duration_ms == self.clock - self.active_timers[operation]
       IN [self |-> [self EXCEPT
                       !.active_timers = DelKey(@, operation),
                       !.operation_times =
                          SetKey(@, operation,
                                 deque_append(GetOr(@, operation, <<>>), duration_ms)),
                       !.counters =
                          SetKey(@, operation \o "_count",
                                 GetOr(@, operation \o "_count", 0) + 1)],
           ret |-> duration_ms]

\* PerformanceMonitor.record_metric
do_record_metric(self, metric, value) ==
  [self EXCEPT !.custom_metrics = SetKey(@, metric, value),
               !.counters = SetKey(@, metric \o "_updates",
                                   GetOr(@, metric \o "_updates", 0) + 1)]

\* PerformanceMonitor.increment_counter
do_increment_counter(self, counter, amount) ==
  [self EXCEPT !.counters = SetKey(@, counter, GetOr(@, counter, 0) + amount)]

\* PerformanceMonitor.clear_metrics
do_clear_metrics(self) ==
  [self EXCEPT !.operation_times = <<>>, !.custom_metrics = <<>>, !.counters = <<>>,
               !.active_timers = <<>>, !.start_time = self.clock]

\* sum, min and max of a non-empty history
SeqSum(times) ==
  LET RECURSIVE S(_)
      S(i) == IF i = 0 THEN 0 ELSE times[i] + S(i - 1)
  IN S(Len(times))
SeqMin(times) == CHOOSE x \in {times[i] : i \in 1..Len(times)} :
                   \A i \in 1..Len(times) : x <= times[i]
SeqMax(times) == CHOOSE x \in {times[i] : i \in 1..Len(times)} :
                   \A i \in 1..Len(times) : x >= times[i]
\* sum(times) / len(times), kept as the fraction it is
Avg(times) == [sum |-> SeqSum(times), len |-> Len(times)]

\* dict.update
Update(f, g) == [k \in DOMAIN f \cup DOMAIN g |-> IF k \in DOMAIN g THEN g[k] ELSE f[k]]

\* PerformanceMonitor.get_operation_stats: None, or the statistics of the
\* retained durations
do_get_operation_stats(self, operation) ==
  IF operation \notin DOMAIN self.operation_times THEN Nil
  ELSE LET times == self.operation_times[operation]
       IN IF times = <<>> THEN Nil
          ELSE Some([count |-> Len(times), avg_ms |-> Avg(times),
                     min_ms |-> SeqMin(times), max_ms |-> SeqMax(times),
                     latest_ms |-> times[Len(times)], total_ms |-> SeqSum(times)])

\* the statistics entries get_metrics writes for the operations with a
\* non-empty history
timing_entries(self) ==
  LET timed == {o \in DOMAIN self.operation_times : self.operation_times[o] # <<>>}
      op_of(k) == CHOOSE o \in timed :
                    k \in {o \o "_avg_ms", o \o "_min_ms", o \o "_max_ms",
                           o \o "_latest_ms", o \o "_count"}
  IN [k \in UNION {{o \o "_avg_ms", o \o "_min_ms", o \o "_max_ms",
                    o \o "_latest_ms", o \o "_count"} : o \in timed} |->
        LET times == self.operation_times[op_of(k)]
        IN IF k = op_of(k) \o "_avg_ms" THEN Avg(times)
           ELSE IF k = op_of(k) \o "_min_ms" THEN SeqMin(times)
           ELSE IF k = op_of(k) \o "_max_ms" THEN SeqMax(times)
           ELSE IF k = op_of(k) \o "_latest_ms" THEN times[Len(times)]
           ELSE Len(times)]

\* PerformanceMonitor.get_metrics: the statistics entries, then
\* result.update(custom_metrics), then result.update(counters), then the
\* system metrics
do_get_metrics(self) ==
  Update(Update(Update(timing_entries(self), self.custom_metrics), self.counters),
         [k \in {"uptime_seconds", "active_timers"} |->
            IF k = "uptime_seconds" THEN self.clock - self.start_time
            ELSE Cardinality(DOMAIN self.active_timers)])

\* the calls on the monitor; each one holds the monitor's lock throughout
MonitorCall(op, operation, self, ret) ==
  /\ monitorOp.n < MaxMonitorCalls
  /\ monitor' = self
  /\ monitorOp' = [op |-> op, operation |-> operation,
                   active |-> operation \in DOMAIN monitor.active_timers,
                   ret |-> ret, n |-> monitorOp.n + 1]
  /\ UNCHANGED <<validatorOp, queryCall>>

PerformanceMonitor(max_history) ==
  /\ ~monitor.constructed
  /\ MonitorCall("__init__", "", do_init(max_history), 0)

start_timing(operation) ==
  /\ monitor.constructed
  /\ MonitorCall("start_timing", operation, do_start_timing(monitor, operation), 0)

end_timing(operation) ==
  /\ monitor.constructed
  /\ \E r \in {do_end_timing(monitor, operation)} :
       MonitorCall("end_timing", operation, r.self, r.ret)

record_metric(metric, value) ==
  /\ monitor.constructed
  /\ MonitorCall("record_metric", metric, do_record_metric(monitor, metric, value), 0)

increment_counter(counter, amount) ==
  /\ monitor.constructed
  /\ MonitorCall("increment_counter", counter,
                 do_increment_counter(monitor, counter, amount), 0)

clear_metrics ==
  /\ monitor.constructed
  /\ MonitorCall("clear_metrics", "", do_clear_metrics(monitor), 0)

get_operation_stats(operation) ==
  /\ monitor.constructed
  /\ MonitorCall("get_operation_stats", operation, monitor,
                 do_get_operation_stats(monitor, operation))

get_metrics ==
  /\ monitor.constructed
  /\ MonitorCall("get_metrics", "", monitor, do_get_metrics(monitor))

\* time.perf_counter() advances
MonitorTick ==
  /\ monitor.constructed /\ monitor.clock < MaxClock
  /\ monitor' = [monitor EXCEPT !.clock = @ + 1]
  /\ UNCHANGED <<validatorOp, monitorOp, queryCall>>

\* ------------------------------------------------------------------------
\* SignalValidator: sample data
\* ------------------------------------------------------------------------
\* What a field of a sample may hold: None, a sequence of numbers (a list or
\* an ndarray), a sequence of strings, a bare number, or bytes. items holds
\* the numbers; for strings and bytes only its length matters.
NoArray == [kind |-> "None", items |-> <<>>]
Numbers(items) == [kind |-> "numbers", items |-> items]
Text(items) == [kind |-> "text", items |-> items]
Scalar == [kind |-> "scalar", items |-> <<>>]
Bytes(items) == [kind |-> "bytes", items |-> items]

\* the data argument of validate_signal: a TemporalSignal, a SpatialSignal,
\* a dict (type = Nil when the key is missing) or something else
NoData == [cls |-> "list", type |-> Nil, timestamps |-> NoArray, values |-> NoArray,
           x |-> NoArray, y |-> NoArray, z |-> NoArray, categories |-> NoArray]
TemporalSignal(timestamps, values) ==
  [NoData EXCEPT !.cls = "TemporalSignal", !.timestamps = timestamps, !.values = values]
SpatialSignal(x, y, z) ==
  [NoData EXCEPT !.cls = "SpatialSignal", !.x = x, !.y = y, !.z = z]
Dict(type, fields) == [fields EXCEPT !.cls = "dict", !.type = type]

\* len(np.array(a)): a bare number has no length
HasLen(a) == a.kind # "scalar"
\* np.isnan and np.diff are defined on numbers only
Numeric(a) == a.kind = "numbers"

\* variant: np.all(np.diff(timestamps) > 0)
diff_gt_0(items) ==
  \A i \in 1..(Len(items) - 1) :
    /\ items[i] # NaN /\ items[i + 1] # NaN
    /\ items[i + 1] - items[i] > 0

\* np.all(np.diff(timestamps) >= 0)
diff_ge_0(items) ==
  \A i \in 1..(Len(items) - 1) :
    /\ items[i] # NaN /\ items[i + 1] # NaN
    /\ items[i + 1] - items[i] >= 0

\* SignalValidator._validate_temporal_signal: "true", "false", or "raise"
\* when a numpy call raises
validate_temporal_signal(signal_data) ==
  LET timestamps == signal_data.timestamps
      values == signal_data.values
  IN IF timestamps = NoArray \/ values = NoArray THEN "false"
     ELSE IF ~HasLen(timestamps) \/ ~HasLen(values) THEN "raise"
     ELSE IF Len(timestamps.items) # Len(values.items) THEN "false"
     ELSE IF Len(timestamps.items) = 0 THEN "false"
     ELSE IF ~Numeric(timestamps) THEN "raise"
     ELSE IF ~diff_ge_0(timestamps.items) THEN "false"
     ELSE IF ~Numeric(values) THEN "raise"
     ELSE "true"

\* SignalValidator._validate_spatial_signal
validate_spatial_signal(signal_data) ==
  LET x == signal_data.x
      y == signal_data.y
      z == signal_data.z
  IN IF x = NoArray \/ y = NoArray THEN "false"
     ELSE IF ~HasLen(x) \/ ~HasLen(y) THEN "raise"
     ELSE IF Len(x.items) # Len(y.items) THEN "false"
     ELSE IF Len(x.items) = 0 THEN "false"
     ELSE IF z # NoArray /\ ~HasLen(z) THEN "raise"
     ELSE IF z # NoArray /\ Len(z.items) # Len(x.items) THEN "false"
     ELSE IF ~Numeric(x) \/ ~Numeric(y) THEN "raise"
     ELSE "true"

\* isinstance(values, (list, np.ndarray))
IsListOrArray(a) == a.kind \in {"numbers", "text"}
Items(a) == {a.items[i] : i \in 1..Len(a.items)}

\* SignalValidator._validate_categorical_signal
validate_categorical_signal(signal_data) ==
  LET values == signal_data.values
      categories == signal_data.categories
  IN IF values = NoArray THEN "false"
     ELSE IF ~IsListOrArray(values) THEN "false"
     ELSE IF Len(values.items) = 0 THEN "false"
     ELSE IF categories # NoArray /\ ~IsListOrArray(categories) THEN "false"
     ELSE IF /\ categories # NoArray
             /\ ~(values.kind = categories.kind /\ Items(values) \subseteq Items(categories))
          THEN "false"
     ELSE "true"

\* SignalValidator._validate_boolean_signal: np.array(values, dtype=bool)
\* keeps the length of a list of numbers
validate_boolean_signal(signal_data) ==
  LET values == signal_data.values
  IN IF values = NoArray THEN "false"
     ELSE IF values.kind # "numbers" THEN "false"
     ELSE IF Len(values.items) = 0 THEN "false"
     ELSE "true"

\* SignalValidator._validate_binary_signal
validate_binary_signal(signal_data) ==
  LET values == signal_data.values
  IN IF values = NoArray THEN "false"
     ELSE IF values.kind # "bytes" THEN "false"
     ELSE IF Len(values.items) = 0 THEN "false"
     ELSE "true"

\* SignalValidator._validate_dict_signal
validate_dict_signal(signal_data) ==
  IF signal_data.type = Nil THEN "false"
  ELSE CASE signal_data.type[1] = "temporal" -> validate_temporal_signal(signal_data)
         [] signal_data.type[1] = "spatial" -> validate_spatial_signal(signal_data)
         [] signal_data.type[1] = "categorical" -> validate_categorical_signal(signal_data)
         [] signal_data.type[1] = "boolean" -> validate_boolean_signal(signal_data)
         [] signal_data.type[1] = "binary" -> validate_binary_signal(signal_data)
         [] OTHER -> "false"

\* SignalValidator.validate_signal: an exception of the checks is logged and
\* answered with False
validate_signal(signal, signal_data) ==
  LET checked == CASE signal_data.cls = "TemporalSignal" -> validate_temporal_signal(signal_data)
                   [] signal_data.cls = "SpatialSignal" -> validate_spatial_signal(signal_data)
                   [] signal_data.cls = "dict" -> validate_dict_signal(signal_data)
                   [] OTHER -> "false"
  IN checked = "true"

\* variant: the batch stops at the first entry that is not valid
RECURSIVE validate_batch_stops(_)
validate_batch_stops(entries) ==
  IF entries = <<>> THEN <<>>
  ELSE LET e == Head(entries)
       IN IF validate_signal(e.signal_name, e.signal_data)
          THEN <<[signal_name |-> e.signal_name, result |-> TRUE]>>
                 \o validate_batch_stops(Tail(entries))
          ELSE <<[signal_name |-> e.signal_name, result |-> FALSE]>>

\* SignalValidator.validate_batch: the dict of results, in the order of the
\* entries of signals.items()
RECURSIVE validate_batch(_)
validate_batch(entries) ==
  IF entries = <<>> THEN <<>>
  ELSE LET e == Head(entries)
       IN <<[signal_name |-> e.signal_name,
             result |-> validate_signal(e.signal_name, e.signal_data)]>>
            \o validate_batch(Tail(entries))

\* the contents of the fields of the samples that clients validate
Arrays == {NoArray, Numbers(<<>>), Numbers(<<0>>), Numbers(<<0, 1>>),
           Numbers(<<0, 1, 2>>), Numbers(<<1, 0, 2>>), Numbers(<<0, 0, 2>>),
           Numbers(<<0, NaN, 2>>), Numbers(<<Inf, NaN, 0>>),
           Text(<<0, 0, 0>>), Scalar, Bytes(<<0, 0, 0>>)}
SampleTypes == {Nil, Some("temporal"), Some("spatial"), Some("categorical"),
                Some("boolean"), Some("binary"), Some("other")}
Samples ==
  {TemporalSignal(t, v) : t \in Arrays, v \in Arrays}
    \cup {SpatialSignal(a, b, NoArray) : a \in Arrays, b \in Arrays}
    \cup {Dict(type, TemporalSignal(t, v)) : type \in SampleTypes, t \in Arrays, v \in Arrays}
    \cup {NoData}

\* the calls on the validator, with their input and result remembered
validate_signal_call(signal, signal_data) ==
  /\ validatorOp = NoValidatorOp
  /\ validatorOp' = [op |-> "validate_signal", signal |-> signal, data |-> signal_data,
                     raised |-> FALSE,
                     ret |-> validate_signal(signal, signal_data)]
  /\ UNCHANGED <<monitor, monitorOp, queryCall>>


AuxInit ==
  /\ validatorOp = NoValidatorOp /\ monitor = NewMonitor /\ monitorOp = NoMonitorOp
  /\ queryCall = NoQueryCall

Init == CacheInit /\ PMInit /\ AuxInit /\ lastSet = [k \in Keys |-> NoSet]

\* the cache alone, under any interleaving of its callers
CacheNext ==
  \/ \E key \in Keys :
       ops < MaxOps /\ get(key) /\ UNCHANGED <<lastSet, auxVars, pmVars>>
  \/ \E key \in Keys, value \in Values, ttl \in TtlArgs :
       ops < MaxOps /\ set(key, value, ttl) /\ UNCHANGED <<lastSet, auxVars, pmVars>>
  \/ \E key \in Keys :
       ops < MaxOps /\ delete(key) /\ UNCHANGED <<lastSet, auxVars, pmVars>>
  \/ ops < MaxOps /\ clear /\ UNCHANGED <<lastSet, auxVars, pmVars>>
  \/ ops < MaxOps /\ cleanup_expired /\ UNCHANGED <<lastSet, auxVars, pmVars>>
  \/ Tick /\ UNCHANGED <<lastSet, auxVars, pmVars>>

CacheSpec == Init /\ [][CacheNext]_vars

\* history: set(key, value, ttl) is now the most recent set call on key
RecordSet(key, value, ttl) ==
  lastSet' = [lastSet EXCEPT ![key] =
                [called |-> TRUE, value |-> value,
                 deadline |-> now + IF ttl = None THEN default_ttl ELSE ttl]]

\* sequences of set calls and get calls while time passes, with the most
\* recent set call on every key remembered
SetGetNext ==
  \/ \E key \in Keys, value \in Values, ttl \in TtlArgs :
       /\ ops < MaxSetGetOps
       /\ set(key, value, ttl) /\ RecordSet(key, value, ttl)
       /\ UNCHANGED <<pmVars, auxVars>>
  \/ \E key \in Keys :
       ops < MaxSetGetOps /\ get(key) /\ UNCHANGED <<lastSet, auxVars, pmVars>>
  \/ Tick /\ UNCHANGED <<lastSet, auxVars, pmVars>>

SetGetSpec == Init /\ [][SetGetNext]_vars

\* the plugin registry alone
PMNext ==
  \/ \E plugin \in PluginObjs : \E env \in RegisterEnvs(plugin) :
       register_plugin(plugin, env) /\ UNCHANGED <<lastSet, auxVars, cacheVars, queryVars>>
  \/ \E plugin_name \in PluginNames : \E env \in UnregisterEnvs(plugin_name) :
       unregister_plugin(plugin_name, env) /\ UNCHANGED <<lastSet, auxVars, cacheVars, queryVars>>
  \/ \E signal_name \in SignalNames, callback \in Callbacks :
       subscribe_to_signal(signal_name, callback) /\ UNCHANGED <<lastSet, auxVars, cacheVars, queryVars>>
  \/ \E signal_name \in SignalNames, callback \in Callbacks :
       unsubscribe_from_signal(signal_name, callback)
         /\ UNCHANGED <<lastSet, auxVars, cacheVars, queryVars>>

PMSpec == Init /\ [][PMNext]_vars

\* The manager with its cache and its worker pool, under any interleaving of
\* its callers, with plugins whose load and unload succeed (a plugin leaves
\* when another one is registered under its name); the manager's on_*
\* callbacks are unset, as main.py leaves them. The clock is watched
\* while the cache holds something. The history variables of the cache
\* calls (ops, recency, cacheOp, lastSet) are not kept here.
QueryNext ==
  \/ /\ calls < MaxCalls /\ calls' = calls + 1
     /\ \E plugin \in PluginObjs : register_plugin(plugin, NoEnv)
     /\ UNCHANGED <<lastSet, auxVars, cacheVars, current_timestamp, executor,
                    shutdownCall, lastQuery>>
  \/ /\ calls < MaxCalls /\ calls' = calls + 1
     /\ \E sub \in QuerySubscriptions : subscribe_to_signal(sub[1], sub[2])
     /\ UNCHANGED <<lastSet, auxVars, cacheVars, current_timestamp, executor,
                    shutdownCall, lastQuery>>
  \/ /\ calls < MaxCalls /\ calls' = calls + 1
     /\ \E timestamp \in QueryTimestamps, given \in QueryRequests :
          \E slow \in SUBSET dispatched_plugins(given) :
            \E raise \in SUBSET (dispatched_plugins(given) \ slow) :
              \E cb_raise \in SUBSET reachable_callbacks(given) :
                request_data_update(timestamp, given,
                  [slow |-> slow, raise |-> raise, cb_raise |-> cb_raise])
     /\ UNCHANGED <<now, ops, recency, cacheOp, lastSet, auxVars, lastQuery>>
  \/ CallFinishes /\ UNCHANGED <<lastSet, auxVars, cacheVars>>
  \/ cache # <<>> /\ Tick /\ UNCHANGED <<lastSet, auxVars, pmVars>>

QuerySpec == Init /\ [][QueryNext]_vars

\* The manager's lock: a query is followed wait by wait while a
\* register_plugin call of another thread stands at the lock. The calling
\* threads are scheduled (weak fairness of their steps); nothing is assumed
\* of the plugin calls in the pool, which may never finish, and which give
\* their workers back between the calls of the manager as in QuerySpec.
MaxLockCalls == 3      \* number of PlotManager calls in a behaviour of LockSpec
LockRequests == {Nil, Some(<<"s2", "s3">>)}

LockNext ==
  \/ calls < MaxLockCalls /\ \E plugin \in PluginObjs : register_arrives(plugin)
  \/ register_proceeds
  \/ /\ calls < MaxLockCalls
     /\ \E timestamp \in QueryTimestamps, given \in LockRequests :
          \E slow \in SUBSET dispatched_plugins(given) :
            query_begin(timestamp, given,
                        [slow |-> slow, raise |-> {}, cb_raise |-> {}])
  \/ query_wait
  \/ query_return
  \/ /\ queryCall.pc = "idle"
     /\ CallFinishes
     /\ UNCHANGED <<lastSet, cacheVars, validatorOp, monitor, monitorOp, queryCall>>

\* Listeners that change the subscriptions from inside their callbacks,
\* with plugins that answer at once.
MaxReentrantCalls == 4 \* number of PlotManager calls in a behaviour
ReentrantRequests == {Nil, Some(<<"s1">>)}
Acts ==
  [by : Callbacks, op : {"subscribe", "unsubscribe"}, signal_name : {"s1", "s3"},
   callback : Callbacks]

ReentrantNext ==
  \/ /\ calls < MaxReentrantCalls /\ calls' = calls + 1
     /\ \E plugin \in {"A1", "B1"} : register_plugin(plugin, NoEnv)
     /\ UNCHANGED <<lastSet, auxVars, cacheVars, current_timestamp, executor,
                    shutdownCall, lastQuery>>
  \/ /\ calls < MaxReentrantCalls /\ calls' = calls + 1
     /\ \E sub \in QuerySubscriptions : subscribe_to_signal(sub[1], sub[2])
     /\ UNCHANGED <<lastSet, auxVars, cacheVars, current_timestamp, executor,
                    shutdownCall, lastQuery>>
  \/ /\ calls < MaxReentrantCalls /\ calls' = calls + 1
     /\ \E timestamp \in QueryTimestamps, given \in ReentrantRequests, act \in Acts :
          request_data_update_reentrant(timestamp, given, act)
     /\ UNCHANGED <<now, ops, recency, cacheOp, lastSet, auxVars, lastQuery>>

ReentrantSpec == Init /\ [][ReentrantNext]_vars

LockSpec ==
  Init /\ [][LockNext]_vars /\ WF_vars(QueryStep) /\ WF_vars(register_proceeds)

\* The cache keys of successive queries. Plugins register in between, so
\* that queries are issued in different states of the signal index; every
\* plugin answers at once. lastQuery remembers the query before this one:
\* its arguments, its key, and the names the index held.
KeyRequests == {Nil, Some(<<>>), Some(<<"s2">>), Some(<<"s2", "s2">>),
                Some(<<"s2", "s3">>), Some(<<"s3", "s2">>)}

RecordQuery(timestamp, given) ==
  lastQuery' = [called |-> TRUE, timestamp |-> timestamp, request |-> given,
                key |-> pmOp'.key, known |-> DOMAIN signals,
                before |-> IF lastQuery.called
                           THEN Some([timestamp |-> lastQuery.timestamp,
                                      request |-> lastQuery.request,
                                      key |-> lastQuery.key,
                                      known |-> lastQuery.known])
                           ELSE Nil]

KeyNext ==
  \/ /\ calls < MaxCalls /\ calls' = calls + 1
     /\ \E plugin \in PluginObjs : register_plugin(plugin, NoEnv)
     /\ UNCHANGED <<lastSet, auxVars, cacheVars, current_timestamp, executor,
                    shutdownCall, lastQuery>>
  \/ /\ calls < MaxCalls /\ calls' = calls + 1
     /\ \E timestamp \in Timestamps, given \in KeyRequests :
          /\ request_data_update(timestamp, given, NoQueryEnv)
          /\ RecordQuery(timestamp, given)
     /\ UNCHANGED <<now, ops, recency, cacheOp, lastSet, auxVars>>

KeySpec == Init /\ [][KeyNext]_vars

\* The manager with plugins that fail: load returns False or raises, unload
\* and get_signals raise, get_data_for_timestamp raises or hangs. The
\* manager's on_* callbacks are unset and nobody subscribes.
PluginFailures(envs) ==
  {e \in envs : e.sig_cb = 0 /\ e.cb_loaded = "ok" /\ e.cb_unloaded = "ok"}
FailureRequests == {Nil, Some(<<"s3">>), Some(<<"s1", "s1", "s1", "s1", "s3">>)}

FailureNext ==
  \/ /\ calls < MaxCalls /\ calls' = calls + 1
     /\ \E plugin \in PluginObjs : \E env \in PluginFailures(RegisterEnvs(plugin)) :
          register_plugin(plugin, env)
     /\ UNCHANGED <<lastSet, auxVars, cacheVars, current_timestamp, executor,
                    shutdownCall, lastQuery>>
  \/ /\ calls < MaxCalls /\ calls' = calls + 1
     /\ \E plugin_name \in PluginNames :
          \E env \in PluginFailures(UnregisterEnvs(plugin_name)) :
            unregister_plugin(plugin_name, env)
     /\ UNCHANGED <<lastSet, auxVars, cacheVars, current_timestamp, executor,
                    shutdownCall, lastQuery>>
  \/ /\ calls < MaxCalls /\ calls' = calls + 1
     /\ \E timestamp \in QueryTimestamps, given \in FailureRequests :
          \E slow \in SUBSET dispatched_plugins(given) :
            \E raise \in SUBSET (dispatched_plugins(given) \ slow) :
              request_data_update(timestamp, given,
                [slow |-> slow, raise |-> raise, cb_raise |-> {}])
     /\ UNCHANGED <<now, ops, recency, cacheOp, lastSet, auxVars, lastQuery>>
  \/ CallFinishes /\ UNCHANGED <<lastSet, auxVars, cacheVars>>

FailureSpec == Init /\ [][FailureNext]_vars

\* PlotManager.shutdown, statement by statement: the method does not take
\* the manager's lock, so the calls of other threads run between its
\* statements. shutdownCall.were remembers the plugins that were
\* registered when shutdown began.
\* plugin_names = list(self.plugins.keys())
shutdown_begin ==
  /\ shutdownCall.pc = "idle"
  /\ shutdownCall' = [pc |-> "unregister", names |-> plugin_order,
                      were |-> {plugins[n] : n \in DOMAIN plugins}]
  /\ UNCHANGED <<plugins, signals, plugin_signals, signal_subscribers, is_loaded,
                 plugin_order, current_timestamp, executor, calls, lastQuery, pmOp>>

\* for plugin_name in plugin_names: self.unregister_plugin(plugin_name)
shutdown_unregister(unload) ==
  /\ shutdownCall.pc = "unregister" /\ shutdownCall.names # <<>>
  /\ unregister_plugin(Head(shutdownCall.names), [NoEnv EXCEPT !.unload = unload])
  /\ shutdownCall' = [shutdownCall EXCEPT !.names = Tail(@)]
  /\ UNCHANGED <<current_timestamp, executor, calls, lastQuery>>

\* self.executor.shutdown(wait=True): the pool refuses new calls from here on
shutdown_executor ==
  /\ shutdownCall.pc = "unregister" /\ shutdownCall.names = <<>>
  /\ executor' = [executor EXCEPT !.stopped = TRUE]
  /\ shutdownCall' = [shutdownCall EXCEPT !.pc = "join"]
  /\ UNCHANGED <<plugins, signals, plugin_signals, signal_subscribers, is_loaded,
                 plugin_order, current_timestamp, calls, lastQuery, pmOp>>

\* ... and returns when the calls it had accepted have finished
shutdown_join ==
  /\ shutdownCall.pc = "join" /\ executor.pending = 0
  /\ shutdownCall' = [shutdownCall EXCEPT !.pc = "clear"]
  /\ UNCHANGED <<plugins, signals, plugin_signals, signal_subscribers, is_loaded,
                 plugin_order, current_timestamp, executor, calls, lastQuery, pmOp>>

\* self.cache.clear(), after which shutdown returns
shutdown_clear ==
  /\ shutdownCall.pc = "clear"
  /\ clear
  /\ shutdownCall' = [shutdownCall EXCEPT !.pc = "done"]
  /\ UNCHANGED <<plugins, signals, plugin_signals, signal_subscribers, is_loaded,
                 plugin_order, current_timestamp, executor, calls, lastQuery, pmOp>>

\* One thread runs shutdown while other threads register plugins, subscribe
\* and query; plugin calls may hang for a while, and unload may raise.
\* the attributes PlotManager.__init__ sets on the new manager
PlotManagerAttributes ==
  {"logger", "plugins", "signals", "plugin_signals", "signal_subscribers",
   "performance_monitor", "cache", "validator", "executor", "current_timestamp",
   "config", "_lock", "on_timestamp_change", "on_plugin_loaded",
   "on_plugin_unloaded", "on_signal_registered"}

\* the keyword arguments with which clients construct a manager
ConstructorKwargs == {{}, {"cache_cleanup_interval"}}

\* PlotManager(**kwargs): __init__ declares no parameter besides self, so a
\* call with a keyword argument raises TypeError before the body runs and no
\* manager comes into being. A successful call builds a manager of its own,
\* with the attributes of __init__; the manager observed here is untouched.
PlotManager(kwargs) ==
  /\ calls < MaxCalls /\ calls' = calls + 1
  /\ pmOp' = IF kwargs = {}
             THEN [NoPmOp EXCEPT !.op = "__init__", !.kwargs = kwargs,
                                 !.attributes = PlotManagerAttributes]
             ELSE [NoPmOp EXCEPT !.op = "__init__", !.kwargs = kwargs,
                                 !.raised = "TypeError"]
  /\ UNCHANGED <<plugins, signals, plugin_signals, signal_subscribers, is_loaded,
                 plugin_order, current_timestamp, executor, shutdownCall, lastQuery>>

ShutdownRequests == {Nil, Some(<<"s3">>)}

ShutdownNext ==
  \/ /\ calls < MaxCalls /\ calls' = calls + 1
     /\ \E plugin \in PluginObjs : register_plugin(plugin, NoEnv)
     /\ UNCHANGED <<lastSet, auxVars, cacheVars, current_timestamp, executor,
                    shutdownCall, lastQuery>>
  \/ /\ calls < MaxCalls /\ calls' = calls + 1
     /\ \E sub \in QuerySubscriptions : subscribe_to_signal(sub[1], sub[2])
     /\ UNCHANGED <<lastSet, auxVars, cacheVars, current_timestamp, executor,
                    shutdownCall, lastQuery>>
  \/ /\ calls < MaxCalls /\ calls' = calls + 1
     /\ \E timestamp \in QueryTimestamps, given \in ShutdownRequests :
          \E slow \in SUBSET dispatched_plugins(given) :
            request_data_update(timestamp, given,
              [slow |-> slow, raise |-> {}, cb_raise |-> {}])
     /\ UNCHANGED <<now, ops, recency, cacheOp, lastSet, auxVars, lastQuery>>
  \/ \E kwargs \in ConstructorKwargs :
       PlotManager(kwargs) /\ UNCHANGED <<lastSet, auxVars, cacheVars>>
  \/ CallFinishes /\ UNCHANGED <<lastSet, auxVars, cacheVars>>
  \/ shutdown_begin /\ UNCHANGED <<lastSet, auxVars, cacheVars>>
  \/ \E unload \in CallOutcomes :
       shutdown_unregister(unload) /\ UNCHANGED <<lastSet, auxVars, cacheVars>>
  \/ shutdown_executor /\ UNCHANGED <<lastSet, auxVars, cacheVars>>
  \/ shutdown_join /\ UNCHANGED <<lastSet, auxVars, cacheVars>>
  \/ shutdown_clear /\ UNCHANGED <<lastSet, auxVars>>

ShutdownSpec == Init /\ [][ShutdownNext]_vars

\* The thread that has called shutdown keeps running: whenever its next
\* statement can be executed, it is. Nothing is assumed about the plugin
\* calls in the worker threads, which may take for ever.
ShutdownStep ==
  \/ \E unload \in CallOutcomes :
       shutdown_unregister(unload) /\ UNCHANGED <<lastSet, auxVars, cacheVars>>
  \/ shutdown_executor /\ UNCHANGED <<lastSet, auxVars, cacheVars>>
  \/ shutdown_join /\ UNCHANGED <<lastSet, auxVars, cacheVars>>
  \/ shutdown_clear /\ UNCHANGED <<lastSet, auxVars>>

ShutdownFairSpec == Init /\ [][ShutdownNext]_vars /\ WF_vars(ShutdownStep)

\* One monitor under any sequence of calls, while its clock advances. The
\* names of counters and metrics include names that the monitor derives
\* itself from an operation name.
CounterNames == {"op1_count", "hits"}
MonitorNext ==
  \/ \E max_history \in MaxHistories :
       PerformanceMonitor(max_history) /\ UNCHANGED <<lastSet, cacheVars, pmVars>>
  \/ \E operation \in Operations :
       start_timing(operation) /\ UNCHANGED <<lastSet, cacheVars, pmVars>>
  \/ \E operation \in Operations :
       end_timing(operation) /\ UNCHANGED <<lastSet, cacheVars, pmVars>>
  \/ \E metric \in Operations, value \in MetricValues :
       record_metric(metric, value) /\ UNCHANGED <<lastSet, cacheVars, pmVars>>
  \/ \E counter \in CounterNames :
       increment_counter(counter, 1) /\ UNCHANGED <<lastSet, cacheVars, pmVars>>
  \/ clear_metrics /\ UNCHANGED <<lastSet, cacheVars, pmVars>>
  \/ \E operation \in Operations :
       get_operation_stats(operation) /\ UNCHANGED <<lastSet, cacheVars, pmVars>>
  \/ get_metrics /\ UNCHANGED <<lastSet, cacheVars, pmVars>>
  \/ MonitorTick /\ UNCHANGED <<lastSet, cacheVars, pmVars>>

MonitorSpec == Init /\ [][MonitorNext]_vars

\* the metadata objects that clients validate, well typed or not
InfoNames == {PyStr("s"), PyStr(""), PyNone, PyInt(5), Missing}
InfoTypes == {Member("temporal"), Member("spatial"), PyStr("temporal")}
InfoUnits == {PyStr("m"), PyStr(""), PyNone}
InfoDescriptions == {PyStr("d"), PyStr("")}
InfoRanges == {PyNone, PyTuple(<<PyInt(0), PyFloat(10)>>), PyTuple(<<PyInt(10), PyInt(0)>>),
               PyTuple(<<PyFloat(1), PyFloat(1)>>), PyTuple(<<PyFloat(NaN), PyFloat(1)>>),
               PyList(<<PyInt(0), PyInt(10)>>),
               PyTuple(<<PyInt(0), PyInt(1), PyInt(2)>>),
               PyTuple(<<PyStr("0"), PyInt(1)>>), PyInt(5)}
InfoRates == {PyNone, PyInt(10), PyInt(0), PyFloat(-1), PyFloat(NaN), PyStr("10")}
InfoCoords == {PyNone, PyStr("local"), PyStr("")}

validate_signal_info_call(signal_info) ==
  /\ validatorOp = NoValidatorOp
  /\ validatorOp' = [op |-> "validate_signal_info", signal_info |-> signal_info,
                     ret |-> validate_signal_info(signal_info)]
  /\ UNCHANGED <<monitor, monitorOp, queryCall>>

\* The validator applied to any one metadata object
InfoNext ==
  \/ \E name \in InfoNames, signal_type \in InfoTypes, units \in InfoUnits,
        description \in InfoDescriptions, range \in InfoRanges, rate \in InfoRates,
        coords \in InfoCoords :
       /\ validate_signal_info_call(
            SignalInfo(name, signal_type, units, description, range, rate, coords))
       /\ UNCHANGED <<lastSet, cacheVars, pmVars>>

InfoSpec == Init /\ [][InfoNext]_vars

\* the batches that clients validate: a dict of up to three names, each with
\* a sample that is valid, invalid, of no known class, or makes numpy raise
BatchSamples == {TemporalSignal(Numbers(<<0, 1, 2>>), Numbers(<<0, 1, 2>>)),
                 TemporalSignal(Numbers(<<1, 0, 2>>), Numbers(<<0, 1, 2>>)),
                 TemporalSignal(Scalar, Numbers(<<0>>)),
                 SpatialSignal(Numbers(<<0, 1>>), Numbers(<<0, 1>>), NoArray),
                 NoData}
MaxBatch == 3
Batches ==
  UNION {{b \in [1..n -> [signal_name : SignalNames, signal_data : BatchSamples]] :
            \A i, j \in 1..n : i # j => b[i].signal_name # b[j].signal_name} :
         n \in 0..MaxBatch}

validate_batch_call(entries) ==
  /\ validatorOp = NoValidatorOp
  /\ validatorOp' = [op |-> "validate_batch", entries |-> entries,
                     ret |-> validate_batch(entries)]
  /\ UNCHANGED <<monitor, monitorOp, queryCall>>

\* The validator applied to any one batch
BatchNext ==
  \/ \E entries \in Batches :
       validate_batch_call(entries) /\ UNCHANGED <<lastSet, cacheVars, pmVars>>

BatchSpec == Init /\ [][BatchNext]_vars

\* The validator applied to any one sample: it keeps no state, so a
\* behaviour is one call
SampleNext ==
  \/ \E signal \in SignalNames, signal_data \in Samples :
       validate_signal_call(signal, signal_data) /\ UNCHANGED <<lastSet, cacheVars, pmVars>>

SampleSpec == Init /\ [][SampleNext]_vars

\* ------------------------------------------------------------------------
\* Properties of the cache
\* ------------------------------------------------------------------------
\* the step is one call of the cache method op
CacheCall(op) == ops' = ops + 1 /\ cacheOp'.op = op

\* the bytes held by the first n keys of the key sequence r in the cache c
RECURSIVE SizeOfFirst(_, _, _)
SizeOfFirst(c, r, n) ==
  IF n = 0 THEN 0 ELSE EntryOf(c, r[n]).size_bytes + SizeOfFirst(c, r, n - 1)

\* C1: after every call, current_size is the sum of size_bytes over the
\* entries in the cache and does not exceed max_size_bytes.
C1_SizeAccounting ==
  /\ current_size = SumSizes(cache)
  /\ current_size <= max_size_bytes

\* C1 witness: a set has evicted to make room and the cache is full.
C1_Witness ==
  /\ cacheOp.op = "set" /\ cacheOp.n > 0
  /\ Len(cache) >= 2
  /\ current_size = max_size_bytes

\* C2: a set that stores its entry evicts exactly the n least recently used
\* of the other entries, for the smallest n that makes the new entry fit;
\* the entries that stay keep their order. Recency is the order of the last
\* hit get or set of each key; TTLs do not occur in the choice.
C2_StrictLruEviction ==
  [][(CacheCall("set") /\ cacheOp'.ok) =>
       LET key == cacheOp'.key
           others == Present(SelectSeq(recency, LAMBDA k : k # key), cache)
           kept == KeysOf(cache') \ {key}
           n == Len(others) - Cardinality(kept)
           size_bytes == calculate_size(cacheOp'.value)
           used == SizeOfFirst(cache, others, Len(others))
       IN /\ n >= 0
          /\ kept = {others[i] : i \in (n + 1)..Len(others)}
          /\ KeysOf(cache') = kept \cup {key}
          /\ used - SizeOfFirst(cache, others, n) + size_bytes <= max_size_bytes
          /\ n > 0 => used - SizeOfFirst(cache, others, n - 1) + size_bytes
                        > max_size_bytes
          /\ [i \in 1..Len(cache') |-> cache'[i].key] =
               Append(SubSeq(others, n + 1, Len(others)), key)
          /\ cacheOp'.n = n]_vars

\* C2 witness: a get refreshed the older of two entries, and the set that
\* followed evicted the other one and stopped there.
C2_Witness ==
  /\ cacheOp.op = "set" /\ cacheOp.n = 1
  /\ Len(cache) = 2
  /\ cache[1].access_count = 1
  /\ cache[1].timestamp + cache[1].ttl < cache[2].timestamp + cache[2].ttl

\* the most recent set call on k stored its value, and its TTL has not ended
WithinTtlOfLastSet(k) ==
  /\ lastSet[k].called
  /\ calculate_size(lastSet[k].value) <= max_size_bytes
  /\ now <= lastSet[k].deadline

\* C3 as claimed: after any sequence of set calls, a get(k) within the TTL
\* of the most recent set(k, v) returns the stored v and counts one hit.
C3_GetReturnsLastSet ==
  [][\A k \in Keys :
       (CacheCall("get") /\ cacheOp'.key = k /\ WithinTtlOfLastSet(k)) =>
         /\ cacheOp'.result = lastSet[k].value
         /\ stats'.hits = stats.hits + 1]_vars

\* C3 amended: after any sequence of set calls, a get(k) within the TTL of
\* the most recent set(k, v) returns the stored v and counts one hit,
\* provided no later set evicted the entry of k to make room.
C3_GetReturnsLastSetIfKept ==
  [][\A k \in Keys :
       (CacheCall("get") /\ cacheOp'.key = k /\ WithinTtlOfLastSet(k)
          /\ k \in KeysOf(cache)) =>
         /\ cacheOp'.result = lastSet[k].value
         /\ stats'.hits = stats.hits + 1
         /\ stats'.misses = stats.misses]_vars

\* C3 witness: a get within the TTL of the last set of its key hit, at the
\* very end of that TTL, after another entry had been evicted.
C3_Witness ==
  /\ cacheOp.op = "get" /\ cacheOp.outcome = "hit"
  /\ lastSet[cacheOp.key].called /\ now = lastSet[cacheOp.key].deadline
  /\ now > 0
  /\ stats.evictions > 0
  /\ cacheOp.result = lastSet[cacheOp.key].value

\* C4: a get on an entry older than its TTL returns a miss, removes exactly
\* that entry, gives its bytes back and adds one to expired and to misses,
\* hits unchanged; a get on an absent key adds one to misses and changes
\* nothing else.
C4_ExpiredGet ==
  [][\A k \in Keys :
       (CacheCall("get") /\ cacheOp'.key = k) =>
         /\ (k \in KeysOf(cache)
               /\ now - EntryOf(cache, k).timestamp > EntryOf(cache, k).ttl) =>
              /\ cacheOp'.result = "None" /\ ~cacheOp'.ok
              /\ cache' = SelectSeq(cache, LAMBDA e : e.key # k)
              /\ current_size' = current_size - EntryOf(cache, k).size_bytes
              /\ stats' = [stats EXCEPT !.expired = @ + 1, !.misses = @ + 1]
         /\ k \notin KeysOf(cache) =>
              /\ cacheOp'.result = "None" /\ ~cacheOp'.ok
              /\ cache' = cache
              /\ current_size' = current_size
              /\ stats' = [stats EXCEPT !.misses = @ + 1]]_vars

\* C4 witness: a get found its entry expired while another entry stayed.
C4_Witness ==
  /\ cacheOp.op = "get" /\ cacheOp.outcome = "expired"
  /\ stats.expired = 1 /\ stats.misses = 1
  /\ Len(cache) >= 1

\* C5: a set whose value is larger than max_size_bytes returns False and
\* leaves entries, LRU order, current_size and counters as they were.
C5_OversizeSetRejected ==
  [][(CacheCall("set") /\ calculate_size(cacheOp'.value) > max_size_bytes) =>
       /\ ~cacheOp'.ok
       /\ cache' = cache
       /\ current_size' = current_size
       /\ stats' = stats]_vars

\* C5 witness: an oversize set was rejected while an entry sits under its key.
C5_Witness ==
  /\ cacheOp.op = "set" /\ cacheOp.outcome = "rejected"
  /\ cacheOp.key \in KeysOf(cache)
  /\ Len(cache) >= 2

\* C6: a set(k, v) that directly follows a set(k, v) leaves the number of
\* entries and current_size as the first one left them.
C6_SetTwice ==
  [][(CacheCall("set") /\ cacheOp.op = "set"
        /\ cacheOp'.key = cacheOp.key /\ cacheOp'.value = cacheOp.value) =>
       /\ Len(cache') = Len(cache)
       /\ current_size' = current_size
       /\ cacheOp'.ok = cacheOp.ok]_vars

\* C6 witness: the repeated set happened in a full cache that had evicted.
C6_Witness ==
  /\ cacheOp.op = "set" /\ cacheOp.repeat /\ cacheOp.ok
  /\ current_size = max_size_bytes
  /\ Len(cache) >= 2
  /\ stats.evictions > 0

\* ------------------------------------------------------------------------
\* Properties of the plugin registry
\* ------------------------------------------------------------------------
\* the step is one call of the PlotManager method op
PMCall(op) == pmOp'.op = op

\* the dict f holds nothing that g does not hold
SubDict(f, g) == DOMAIN f \subseteq DOMAIN g /\ \A x \in DOMAIN f : f[x] = g[x]

\* the registered plugins whose owned-signal set holds the signal
OwnersOf(signal_name) ==
  {n \in DOMAIN plugins :
     n \in DOMAIN plugin_signals /\ signal_name \in plugin_signals[n]}

\* C7 as claimed: every signal name in the signal index belongs to the
\* owned-signal set of exactly one registered plugin.
C7_OneOwnerPerSignal ==
  \A signal_name \in DOMAIN signals : Cardinality(OwnersOf(signal_name)) = 1

\* C8: when load() fails (returns False or raises) register_plugin returns
\* False and adds nothing: no plugin, no signal, no owned-signal set for the
\* name, no subscription.
C8_FailedLoadAddsNothing ==
  [][(PMCall("register_plugin") /\ pmOp'.env.load # "true") =>
       /\ ~pmOp'.ret
       /\ SubDict(plugins', plugins)
       /\ SubDict(signals', signals)
       /\ SubDict(plugin_signals', plugin_signals)
       /\ pmOp'.plugin_name \notin DOMAIN plugin_signals'
       /\ SubDict(signal_subscribers', signal_subscribers)
       /\ ~is_loaded[pmOp'.plugin] => ~is_loaded'[pmOp'.plugin]]_vars

\* C8 witness: the load of a new plugin failed while another plugin that
\* declares one of its signals is registered.
C8_Witness ==
  /\ pmOp.op = "register_plugin" /\ pmOp.env.load = "false" /\ ~pmOp.ret
  /\ ~pmOp.was_registered
  /\ pmOp.plugin = "A1"
  /\ "B" \in DOMAIN plugins /\ "s1" \in DOMAIN signals

\* C9: registering a plugin under a registered name unregisters the old
\* registration first: the signals the old one owned lose their
\* subscriptions, those the new plugin does not validly declare are absent
\* from get_available_signals(), the owned-signal set holds valid signals of
\* the new plugin only, and all of them when the call returns True.
C9_ReRegistrationReplaces ==
  [][(PMCall("register_plugin") /\ pmOp'.plugin_name \in DOMAIN plugins) =>
       LET plugin == pmOp'.plugin
           plugin_name == pmOp'.plugin_name
           old_owned == get_plugin_signals(plugin_name)
           new_owned == IF plugin_name \in DOMAIN plugin_signals'
                        THEN plugin_signals'[plugin_name] ELSE {}
       IN /\ new_owned \subseteq ValidSignals(plugin)
          /\ pmOp'.ret => /\ new_owned = ValidSignals(plugin)
                          /\ plugin_name \in DOMAIN plugins'
                          /\ plugins'[plugin_name] = plugin
          /\ (old_owned \ ValidSignals(plugin)) \cap DOMAIN (get_available_signals)' = {}
          /\ old_owned \cap DOMAIN signal_subscribers' = {}
          /\ \A s \in new_owned : signals'[s].description = plugin]_vars

\* C9 witness: A2 replaced A1 under the name A; s1, which only A1 owned, is
\* gone, and s3, which A2 declares with invalid metadata, is not owned.
C9_Witness ==
  /\ pmOp.op = "register_plugin" /\ pmOp.was_registered /\ pmOp.ret
  /\ pmOp.plugin = "A2" /\ pmOp.unloaded = {"A1"}
  /\ plugin_signals["A"] = {"s2"}
  /\ "s1" \notin DOMAIN signals

\* C10 as claimed: unregister_plugin of a registered name returns True; the
\* plugin is then absent from the registry, the signals it owned are absent
\* from the signal index and have no subscription, and the plugin has been
\* unloaded.
C10_UnregisterRemovesAll ==
  [][(PMCall("unregister_plugin") /\ pmOp'.plugin_name \in DOMAIN plugins) =>
       LET plugin_name == pmOp'.plugin_name
           owned == get_plugin_signals(plugin_name)
       IN /\ pmOp'.ret
          /\ plugin_name \notin DOMAIN plugins'
          /\ plugin_name \notin DOMAIN plugin_signals'
          /\ owned \cap DOMAIN signals' = {}
          /\ owned \cap DOMAIN signal_subscribers' = {}
          /\ plugins[plugin_name] \in pmOp'.unloaded
          /\ ~is_loaded'[plugins[plugin_name]]]_vars

\* C11: unregister_plugin of a name that is not registered returns False and
\* leaves the registry, the signal index, the owned-signal sets, the
\* subscriptions and the cache as they were, and unloads nothing.
C11_UnknownUnregisterIsNoOp ==
  [][(PMCall("unregister_plugin") /\ pmOp'.plugin_name \notin DOMAIN plugins) =>
       /\ ~pmOp'.ret
       /\ pmOp'.unloaded = {}
       /\ UNCHANGED <<plugins, signals, plugin_signals, signal_subscribers, is_loaded>>
       /\ UNCHANGED <<cache, current_size, stats>>]_vars

\* C11 witness: the unknown name was given while another plugin is
\* registered and one of its signals has a subscription.
C11_Witness ==
  /\ pmOp.op = "unregister_plugin" /\ ~pmOp.was_registered /\ ~pmOp.ret
  /\ pmOp.plugin_name = "B"
  /\ DOMAIN plugins = {"A"}
  /\ signal_subscribers # EmptyDict

\* ------------------------------------------------------------------------
\* Properties of request_data_update
\* ------------------------------------------------------------------------
\* the step is one call of request_data_update
QueryCall == calls' = calls + 1 /\ pmOp'.op = "request_data_update"

\* the plugin objects that are registered and own the signal
OwningPlugins(signal_name) ==
  {p \in PluginObjs :
     /\ name_of(p) \in DOMAIN plugins /\ plugins[name_of(p)] = p
     /\ name_of(p) \in DOMAIN plugin_signals
     /\ signal_name \in plugin_signals[name_of(p)]}

\* the names in a list
Names(l) == {l[i] : i \in 1..Len(l)}

\* C12 as claimed: when the cache holds an unexpired entry under the key of
\* the query, request_data_update returns the value of that entry,
\* dispatches no plugin call and notifies no subscriber, whatever the value.
C12_CacheHitReturnsEntry ==
  [][(QueryCall /\ pmOp'.key \in KeysOf(cache)
        /\ ~is_expired(EntryOf(cache, pmOp'.key), now)) =>
       /\ pmOp'.result = EntryOf(cache, pmOp'.key).value
       /\ pmOp'.futures = <<>>
       /\ pmOp'.calls = <<>>]_vars

\* every plugin call the query dispatched completed within the timeout
AllCompleted(op) == \A i \in 1..Len(op.outcomes) : op.outcomes[i].state # "timeout"

\* the names a request asks for, read literally: the names in the list, and
\* every known name when the argument is omitted
RequestedAsListed(given) == IF given = Nil THEN DOMAIN signals ELSE Names(given[1])

\* the names a request asks for: an empty list asks for every known name too
Requested(given) ==
  IF given = Nil \/ given[1] = <<>> THEN DOMAIN signals ELSE Names(given[1])

\* the result of the query step is the merge, over the names of req that are
\* in the signal index, of what the owning plugins return for the timestamp
MergedResult(req) ==
  LET res == pmOp'.result
      t == pmOp'.timestamp
      failed == pmOp'.qenv.raise
  IN /\ DOMAIN res \subseteq req \cap DOMAIN signals
     /\ \A n \in req \cap DOMAIN signals :
          /\ OwningPlugins(n) # {}
          /\ n \in DOMAIN res =>
               \E p \in OwningPlugins(n) :
                 /\ p \notin failed
                 /\ get_data_for_timestamp(p, n, t, is_loaded[p]) = Some(res[n])
          /\ n \notin DOMAIN res =>
               \E p \in OwningPlugins(n) :
                 \/ p \in failed
                 \/ get_data_for_timestamp(p, n, t, is_loaded[p]) = Nil

\* C13 as claimed: on a cache miss in which every dispatched plugin call
\* completes in time, the result maps exactly the requested names that are
\* in the signal index to the non-null sample of their owning plugin.
C13_MergedResultOfListed ==
  [][(QueryCall /\ ~pmOp'.hit /\ AllCompleted(pmOp')) =>
       MergedResult(RequestedAsListed(pmOp'.request))]_vars

\* C13 amended: the same, where an omitted or an empty signals argument
\* requests every name of the signal index.
C13_MergedResult ==
  [][(QueryCall /\ ~pmOp'.hit /\ AllCompleted(pmOp')) =>
       MergedResult(Requested(pmOp'.request))]_vars

\* C13 witness: one query returned s2 from plugin A1 and s3 from plugin B1.
C13_Witness ==
  /\ pmOp.op = "request_data_update" /\ ~pmOp.hit
  /\ pmOp.request = Some(<<"s2", "s3">>)
  /\ DOMAIN pmOp.result = {"s2", "s3"}
  /\ {pmOp.futures[i].plugin : i \in 1..Len(pmOp.futures)} = {"A1", "B1"}
  /\ pmOp.result["s2"].value # pmOp.result["s3"].value

\* C13 witness of the omissions: a name outside the index and a null result
\* were left out of a result that holds another signal.
C13_WitnessOmitted ==
  /\ pmOp.op = "request_data_update" /\ ~pmOp.hit
  /\ pmOp.request = Some(<<"s2", "s3">>)
  /\ DOMAIN pmOp.result = {"s3"}
  /\ pmOp.qenv = NoQueryEnv
  /\ Len(pmOp.outcomes) = 2

\* C14 as claimed: in a query, the signal of a plugin call that times out or
\* fails is left out of the result, and every other dispatched signal whose
\* plugin answers promptly with a sample is in the result, however many
\* calls of this query or of earlier queries are slow.
C14_PromptSignalsDelivered ==
  [][(QueryCall /\ ~pmOp'.hit) =>
       \A i \in 1..Len(pmOp'.futures) :
         LET f == pmOp'.futures[i]
             sample == get_data_for_timestamp(f.plugin, f.signal_name,
                                              pmOp'.timestamp, is_loaded[f.plugin])
         IN /\ f.plugin \in (pmOp'.qenv.slow \cup pmOp'.qenv.raise) =>
                 f.signal_name \notin DOMAIN pmOp'.result
            /\ (f.plugin \notin (pmOp'.qenv.slow \cup pmOp'.qenv.raise)
                  /\ sample # Nil) =>
                 /\ f.signal_name \in DOMAIN pmOp'.result
                 /\ pmOp'.result[f.signal_name] = sample[1]]_vars

\* the calls made to the callback for the signal during the query step
CallsTo(callback, signal_name) ==
  {i \in 1..Len(pmOp'.calls) : /\ pmOp'.calls[i].callback = callback
                               /\ pmOp'.calls[i].signal_name = signal_name}

\* C15: after a cache-miss query every listener subscribed to a signal of
\* the result is called exactly once for that signal, with the signal, its
\* data in the result and the timestamp of this query, whether or not
\* another listener raised; nobody else is called, and the map returned is
\* the map that was collected from the plugins.
C15_ListenersIsolated ==
  [][(QueryCall /\ ~pmOp'.hit /\ ~pmOp'.caught) =>
       /\ \A n \in DOMAIN pmOp'.result \cap DOMAIN signal_subscribers :
            \A cb \in signal_subscribers[n] :
              /\ Cardinality(CallsTo(cb, n)) = 1
              /\ \A i \in CallsTo(cb, n) :
                   /\ pmOp'.calls[i].data = pmOp'.result[n]
                   /\ pmOp'.calls[i].timestamp = pmOp'.timestamp
       /\ \A i \in 1..Len(pmOp'.calls) :
            /\ pmOp'.calls[i].signal_name \in DOMAIN pmOp'.result
            /\ pmOp'.calls[i].signal_name \in DOMAIN signal_subscribers
            /\ pmOp'.calls[i].callback \in signal_subscribers[pmOp'.calls[i].signal_name]
       /\ pmOp'.result = collect(pmOp'.outcomes)]_vars

\* C15 witness: the first listener called raised and a listener after it
\* was called all the same, in a query that returned data.
C15_Witness ==
  /\ pmOp.op = "request_data_update" /\ ~pmOp.hit
  /\ Len(pmOp.calls) >= 2
  /\ pmOp.calls[1].raised
  /\ ~pmOp.calls[Len(pmOp.calls)].raised
  /\ pmOp.result # EmptyDict

\* the plugin object registered and loaded under its name
Registered(p) ==
  /\ name_of(p) \in DOMAIN plugins
  /\ plugins[name_of(p)] = p
  /\ is_loaded[p]

\* the sample is taken from a row of the plugin's data, and no row of the
\* data is closer to the timestamp
ClosestSample(p, signal_name, timestamp, sample) ==
  \E i \in 1..Len(data(p)) :
    /\ sample.timestamp = data(p)[i].timestamp
    /\ sample.value = data(p)[i].value[signal_name]
    /\ \A j \in 1..Len(data(p)) :
         abs(data(p)[i].timestamp - timestamp) <= abs(data(p)[j].timestamp - timestamp)

C20_WitnessEarlier ==
  /\ pmOp.op = "request_data_update" /\ ~pmOp.hit
  /\ pmOp.request = Some(<<"s1">>)
  /\ pmOp.timestamp = 50
  /\ Registered("A1")
  /\ "s1" \in DOMAIN pmOp.result
  /\ pmOp.result["s1"].timestamp = 48

\* ------------------------------------------------------------------------
\* Properties of the cache key of a query
\* ------------------------------------------------------------------------
\* the names of an argument, an omitted argument naming nothing
NamesGiven(given) == Names(or_else(given, <<>>))
\* how often the name is listed in the argument
Listed(given, n) ==
  Cardinality({i \in 1..Len(or_else(given, <<>>)) : or_else(given, <<>>)[i] = n})

\* C16 as stated: two queries with the same timestamp and the same set of
\* signal names use the identical key, whatever the order of the names
\* and the states they are issued in.
C16_KeyOfNameSet ==
  [][(/\ QueryCall /\ lastQuery.called
      /\ pmOp'.timestamp = lastQuery.timestamp
      /\ NamesGiven(pmOp'.request) = NamesGiven(lastQuery.request)) =>
        pmOp'.key = lastQuery.key]_vars

\* C16: two queries with the same timestamp whose lists hold the same names
\* the same number of times use the identical key, whatever the order of
\* the names and the states they are issued in.
C16_KeyOfNameList ==
  [][(/\ QueryCall /\ lastQuery.called
      /\ pmOp'.timestamp = lastQuery.timestamp
      /\ \A n \in SignalNames :
           Listed(pmOp'.request, n) = Listed(lastQuery.request, n)) =>
        pmOp'.key = lastQuery.key]_vars

\* C16 witness: the same two names in the other order, after the signal
\* index changed, under the key of the query before.
C16_Witness ==
  /\ pmOp.op = "request_data_update" /\ pmOp.hit
  /\ lastQuery.request = Some(<<"s3", "s2">>)
  /\ lastQuery.before # Nil
  /\ lastQuery.before[1].request = Some(<<"s2", "s3">>)
  /\ lastQuery.before[1].known # lastQuery.known
  /\ lastQuery.before[1].key = lastQuery.key

\* C17: the key of a query without a signals argument is built from the
\* timestamp and the sorted names of the signal index, so that two such
\* queries at one timestamp with different indexes use different keys.
C17_AllSignalsKey ==
  [][(QueryCall /\ pmOp'.request = Nil) =>
       /\ pmOp'.key = create_key(pmOp'.timestamp, sorted(signal_keys(PM)))
       /\ (/\ lastQuery.called /\ lastQuery.request = Nil
           /\ lastQuery.timestamp = pmOp'.timestamp
           /\ lastQuery.known # DOMAIN signals) => pmOp'.key # lastQuery.key]_vars

\* ------------------------------------------------------------------------
\* Properties of the manager with failing plugins
\* ------------------------------------------------------------------------
\* the step is one call of the manager method op
ManagerCall(op) == calls' = calls + 1 /\ pmOp'.op = op

\* register_plugin returns False exactly when load or get_signals failed,
\* and a plugin whose calls succeed is registered and loaded afterwards
RegisterReports ==
  ManagerCall("register_plugin") =>
    /\ pmOp'.ret = (pmOp'.env.load = "true" /\ pmOp'.env.get_signals = "ok")
    /\ pmOp'.ret =>
         /\ pmOp'.plugin_name \in DOMAIN plugins'
         /\ plugins'[pmOp'.plugin_name] = pmOp'.plugin
         /\ is_loaded'[pmOp'.plugin]

\* unregister_plugin of a registered plugin returns False exactly when
\* unload raised
UnregisterReports ==
  (ManagerCall("unregister_plugin") /\ pmOp'.was_registered) =>
    pmOp'.ret = (pmOp'.env.unload = "ok")

\* a query that misses the cache returns a map without the signals whose
\* plugin raised or hung, and with the sample of every other signal it asked
\* a plugin for
QueryReports ==
  (ManagerCall("request_data_update") /\ ~pmOp'.hit) =>
    /\ ~pmOp'.caught
    /\ \A i \in 1..Len(pmOp'.futures) :
         LET f == pmOp'.futures[i]
             failing == pmOp'.qenv.slow \cup pmOp'.qenv.raise
             sample == get_data_for_timestamp(f.plugin, f.signal_name,
                                              pmOp'.timestamp, is_loaded[f.plugin])
         IN /\ (\A j \in 1..Len(pmOp'.futures) :
                  pmOp'.futures[j].signal_name = f.signal_name =>
                    pmOp'.futures[j].plugin \in failing)
                 => f.signal_name \notin DOMAIN pmOp'.result
            /\ (f.plugin \notin failing /\ sample # Nil) =>
                 /\ f.signal_name \in DOMAIN pmOp'.result
                 /\ pmOp'.result[f.signal_name] = sample[1]

\* C18: whatever a plugin's load, unload, get_signals or
\* get_data_for_timestamp does, the manager's calls report the failure
\* through their return value (False, or the signal omitted), and the calls
\* for other plugins and signals, earlier failures notwithstanding, succeed.
C18_FailuresContained ==
  [][RegisterReports /\ UnregisterReports /\ QueryReports]_vars

\* ------------------------------------------------------------------------
\* Properties of shutdown
\* ------------------------------------------------------------------------
\* the step in which shutdown returns
ShutdownReturns == shutdownCall.pc = "clear" /\ shutdownCall'.pc = "done"

\* C19: when shutdown returns no plugin is registered, the signal index and
\* the subscriptions are empty, every plugin that was registered has been
\* unloaded, the worker pool is stopped and the cache is empty, whatever
\* other threads called in the meantime.
C19_ShutdownLeavesNothing ==
  [][ShutdownReturns =>
       /\ DOMAIN plugins' = {}
       /\ DOMAIN signals' = {}
       /\ DOMAIN signal_subscribers' = {}
       /\ \A p \in shutdownCall.were : ~is_loaded'[p]
       /\ executor'.stopped
       /\ cache' = <<>>]_vars

\* ------------------------------------------------------------------------
\* Properties of the validator
\* ------------------------------------------------------------------------
\* the sample is validated as a temporal one
IsTemporal(signal_data) ==
  \/ signal_data.cls = "TemporalSignal"
  \/ signal_data.cls = "dict" /\ signal_data.type = Some("temporal")

\* no number of the sequence is followed, directly or later, by a smaller
\* one; NaN is neither smaller nor larger than a number
NonDecreasing(items) ==
  \A i, j \in 1..Len(items) :
    i < j => (items[i] # NaN /\ items[j] # NaN /\ items[i] <= items[j])

C21_WitnessRejected ==
  /\ validatorOp.op = "validate_signal"
  /\ validatorOp.data.cls = "dict" /\ validatorOp.data.type = Some("temporal")
  /\ validatorOp.data.timestamps = Numbers(<<1, 0, 2>>)
  /\ validatorOp.data.values = Numbers(<<0, 1, 2>>)
  /\ ~validatorOp.ret

\* a non-empty string
NonEmptyStr(x) == x.t = "str" /\ x.s # ""
\* a pair of numbers, the first one less than the second one
OrderedPair(x) ==
  /\ x.t \in {"tuple", "list"} /\ Len(x.items) = 2
  /\ IsNumber(x.items[1]) /\ IsNumber(x.items[2])
  /\ x.items[1].n # NaN /\ x.items[2].n # NaN
  /\ x.items[1].n < x.items[2].n
\* a number greater than 0
StrictlyPositive(x) == IsNumber(x) /\ x.n # NaN /\ x.n > 0

\* C22: validate_signal_info returns True exactly when name, units and
\* description are non-empty strings, the value range (if present) is a pair
\* of numbers with min < max, the sampling rate (if present) is strictly
\* positive, and a spatial signal has a non-empty coordinate system.
C22_InfoValidExactly ==
  validatorOp.op = "validate_signal_info" =>
    LET info == validatorOp.signal_info
    IN validatorOp.ret <=>
         /\ \A f \in DOMAIN info : info[f] # Missing
         /\ NonEmptyStr(info.name)
         /\ NonEmptyStr(info.units)
         /\ NonEmptyStr(info.description)
         /\ info.value_range # PyNone => OrderedPair(info.value_range)
         /\ info.sampling_rate # PyNone => StrictlyPositive(info.sampling_rate)
         /\ info.signal_type = Member("spatial") => ~falsy(info.coordinate_system)

\* C23: validate_batch returns one boolean per input name, each equal to
\* what validate_signal returns for that entry alone, whatever the other
\* entries are.
C23_BatchIndependent ==
  validatorOp.op = "validate_batch" =>
    /\ Len(validatorOp.ret) = Len(validatorOp.entries)
    /\ \A i \in 1..Len(validatorOp.entries) :
         /\ validatorOp.ret[i].signal_name = validatorOp.entries[i].signal_name
         /\ validatorOp.ret[i].result =
              validate_signal(validatorOp.entries[i].signal_name,
                              validatorOp.entries[i].signal_data)

\* C23 witness: the first entry made numpy raise, the second one was invalid,
\* and the third one was still validated and found valid.
C23_Witness ==
  /\ validatorOp.op = "validate_batch"
  /\ Len(validatorOp.entries) = 3
  /\ validatorOp.entries[1].signal_data = TemporalSignal(Scalar, Numbers(<<0>>))
  /\ validate_temporal_signal(validatorOp.entries[1].signal_data) = "raise"
  /\ validatorOp.entries[2].signal_data =
       TemporalSignal(Numbers(<<1, 0, 2>>), Numbers(<<0, 1, 2>>))
  /\ ~validatorOp.ret[1].result
  /\ ~validatorOp.ret[2].result
  /\ validatorOp.ret[3].result

\* ------------------------------------------------------------------------
\* Properties of the monitor
\* ------------------------------------------------------------------------
\* the step is one call of the monitor method op
MonitorStep(op) == monitorOp'.n = monitorOp.n + 1 /\ monitorOp'.op = op

\* C24: end_timing(op) without an active timer for op returns 0 and changes
\* no counter, no duration history and no metric; with an active timer it
\* removes the timer, records one duration (the time since the last
\* start_timing(op)) and counts one call.
C24_EndWithoutStart ==
  [][MonitorStep("end_timing") =>
       LET op == monitorOp'.operation
           count == op \o "_count"
       IN IF op \notin DOMAIN monitor.active_timers
          THEN /\ monitorOp'.ret = 0
               /\ monitor'.counters = monitor.counters
               /\ monitor'.operation_times = monitor.operation_times
               /\ monitor'.custom_metrics = monitor.custom_metrics
               /\ monitor'.active_timers = monitor.active_timers
          ELSE /\ monitorOp'.ret = monitor.clock - monitor.active_timers[op]
               /\ op \notin DOMAIN monitor'.active_timers
               /\ op \in DOMAIN monitor'.operation_times
               /\ monitor'.operation_times[op][Len(monitor'.operation_times[op])]
                    = monitorOp'.ret
               /\ monitor'.counters[count] = GetOr(monitor.counters, count, 0) + 1
               /\ monitor'.custom_metrics = monitor.custom_metrics]_vars

\* C24 witness: after start_timing(op1) and end_timing(op1) one duration and
\* one call were recorded, and a second end_timing(op1) returned 0.
C24_Witness ==
  /\ monitorOp.op = "end_timing" /\ monitorOp.operation = "op1"
  /\ ~monitorOp.active /\ monitorOp.ret = 0
  /\ monitorOp.n = 4
  /\ "op1" \in DOMAIN monitor.operation_times
  /\ Len(monitor.operation_times["op1"]) = 1
  /\ monitor.counters = [c \in {"op1_count"} |-> 1]

\* ------------------------------------------------------------------------
\* The cache cleaner of the manager
\* ------------------------------------------------------------------------
\* C25: constructing a PlotManager with cache_cleanup_interval yields a manager
\* that has a cache-cleaner thread (the thread that removes entries whose TTL
\* has elapsed and that shutdown stops).
C25_CleanerThread ==
  (pmOp.op = "__init__" /\ "cache_cleanup_interval" \in pmOp.kwargs)
    => (pmOp.raised = "none" /\ "_cache_cleaner_thread" \in pmOp.attributes)

\* ------------------------------------------------------------------------
\* Order of the steps of a query
\* ------------------------------------------------------------------------
\* C26: in a cache-miss query the write of the merged map to the cache
\* precedes the notifications: a notified subscriber finds the cache as the
\* write left it, holding the map under the query's key whenever the handler
\* accepts a map of that size; and when the query has returned, every
\* notification for the map it returns has been made with the data of that map.
C26_CacheBeforeNotify ==
  [][(QueryCall /\ ~pmOp'.hit /\ ~pmOp'.caught) =>
       /\ pmOp'.seen = peek(Self', pmOp'.key)
       /\ calculate_size(pmOp'.result) <= max_size_bytes =>
            pmOp'.seen = Some(pmOp'.result)
       /\ Len(pmOp'.calls) =
            Len(notify_pairs(pmOp'.result, signal_subscribers))
       /\ \A i \in 1..Len(pmOp'.calls) :
            pmOp'.calls[i].data = pmOp'.result[pmOp'.calls[i].signal_name]]_vars

\* C26 witness: a cache-miss query notified a subscriber, who found the map
\* that the query returned in the cache.
C26_Witness ==
  /\ pmOp.op = "request_data_update" /\ ~pmOp.hit /\ ~pmOp.caught
  /\ Len(pmOp.calls) >= 1
  /\ pmOp.result # EmptyDict
  /\ pmOp.seen = Some(pmOp.result)

\* the futures of the query step whose call did not complete within the timeout
TimedOut == {i \in 1..Len(pmOp'.outcomes) : pmOp'.outcomes[i].state = "timeout"}

\* the step is the completion of a call that its query has abandoned
AbandonedCallCompletes == executor'.pending < executor.pending /\ calls' = calls

\* C27: a query makes one call per dispatched future and waits for it once; a
\* signal whose call timed out is not in the result of the query, not in the
\* cache entry the query writes and not in its notifications; and when the
\* abandoned call completes later, the cache, the registry and the record of
\* the last query and of its notifications stay as they are, so that its
\* result reaches no later query.
C27_AbandonedResultDropped ==
  [][/\ (QueryCall /\ ~pmOp'.hit /\ ~pmOp'.caught) =>
          /\ pmOp'.futures = submit_all(PM, or_else(pmOp'.request, signal_keys(PM)))
          /\ Len(pmOp'.outcomes) = Len(pmOp'.futures)
          /\ \A i \in TimedOut :
               LET n == pmOp'.outcomes[i].signal_name
               IN /\ pmOp'.outcomes[i].data = Nil
                  /\ n \notin DOMAIN pmOp'.result
                  /\ pmOp'.seen # Nil => n \notin DOMAIN pmOp'.seen[1]
                  /\ \A j \in 1..Len(pmOp'.calls) : pmOp'.calls[j].signal_name # n
          /\ executor'.pending = executor.pending + Cardinality(TimedOut)
     /\ AbandonedCallCompletes =>
          /\ executor'.pending = executor.pending - 1
          /\ UNCHANGED <<cache, current_size, stats, pmOp, lastQuery, plugins,
                         signals, plugin_signals, signal_subscribers,
                         current_timestamp>>]_vars

\* C27 witness: a call timed out in a query that returned the data of another
\* signal, and the abandoned call has completed since.
C27_Witness ==
  /\ pmOp.op = "request_data_update" /\ ~pmOp.hit /\ ~pmOp.caught
  /\ \E i \in 1..Len(pmOp.outcomes) : pmOp.outcomes[i].state = "timeout"
  /\ pmOp.result # EmptyDict
  /\ executor.pending = 0

\* ------------------------------------------------------------------------
\* What a successful registration leaves
\* ------------------------------------------------------------------------
\* the valid signals of the plugin in the order of its declaration
ValidDeclared(p) ==
  SelectSeq([i \in 1..Len(get_signals(p)) |-> get_signals(p)[i].signal_name],
            LAMBDA n : n \in ValidSignals(p))

\* the other registered names that own the signal after the step
OtherOwners(n, plugin_name) ==
  {q \in DOMAIN plugin_signals' \ {plugin_name} : n \in plugin_signals'[q]}

\* C28 as claimed: after register_plugin(p) returned True the signals p owns
\* are exactly its declared signals with valid metadata, each is in the index
\* and was passed once to on_signal_registered, and a declared signal with
\* invalid metadata is neither owned by p nor in the index.
C28_RegisteredExactlyValid ==
  [][(PMCall("register_plugin") /\ pmOp'.ret) =>
       LET p == pmOp'.plugin
           owned == plugin_signals'[pmOp'.plugin_name]
       IN /\ owned = ValidSignals(p)
          /\ owned \subseteq DOMAIN signals'
          /\ pmOp'.registered = ValidDeclared(p)
          /\ \A n \in declared(p) \ ValidSignals(p) :
               n \notin owned /\ n \notin DOMAIN signals']_vars

\* C28 as amended: a declared signal with invalid metadata is not owned by p,
\* and it is in the index only when another registered plugin owns a signal of
\* that name; the index then holds that plugin's metadata.
C28_RegisteredValidOwned ==
  [][(PMCall("register_plugin") /\ pmOp'.ret) =>
       LET p == pmOp'.plugin
           owned == plugin_signals'[pmOp'.plugin_name]
       IN /\ owned = ValidSignals(p)
          /\ owned \subseteq DOMAIN signals'
          /\ \A n \in owned : signals'[n].description = p
          /\ pmOp'.registered = ValidDeclared(p)
          /\ \A n \in declared(p) \ ValidSignals(p) :
               /\ n \notin owned
               /\ n \in DOMAIN signals' =>
                    /\ OtherOwners(n, pmOp'.plugin_name) # {}
                    /\ n \in DOMAIN signals /\ signals'[n] = signals[n]
                    /\ signals'[n].description # p]_vars

\* C28 witness: A2, which declares s2 with valid and s3 with invalid metadata,
\* was registered and owns s2 alone, while s3 is in the index for B.
C28_Witness ==
  /\ pmOp.op = "register_plugin" /\ pmOp.ret /\ pmOp.plugin = "A2"
  /\ pmOp.registered = <<"s2">>
  /\ plugin_signals["A"] = {"s2"}
  /\ "B" \in DOMAIN plugin_signals /\ "s3" \in plugin_signals["B"]
  /\ "s3" \in DOMAIN signals

\* ------------------------------------------------------------------------
\* The worker pool
\* ------------------------------------------------------------------------
\* C29: in every state at most max_workers (4) dispatched plugin calls are
\* executing, the calls that earlier queries abandoned included; a call
\* beyond that waits in the queue of the pool.
C29_AtMostFourExecuting ==
  /\ executor.running <= max_workers
  /\ executor.running <= executor.pending
  /\ executor.pending > executor.running => executor.running = max_workers
  /\ (pmOp.op = "request_data_update" /\ ~pmOp.hit) =>
       Cardinality({i \in 1..Len(pmOp.outcomes) :
                      pmOp.outcomes[i].started /\ pmOp.outcomes[i].state = "timeout"})
         <= max_workers

\* C29 witness: four abandoned calls are executing and a fifth, dispatched by
\* a later query, is waiting for a worker.
C29_Witness ==
  /\ executor.running = max_workers
  /\ executor.pending > max_workers
  /\ pmOp.op = "request_data_update" /\ ~pmOp.hit
  /\ \E i \in 1..Len(pmOp.outcomes) : ~pmOp.outcomes[i].started
  /\ Len(pmOp.outcomes) < executor.pending

\* ------------------------------------------------------------------------
\* The TTL of an entry
\* ------------------------------------------------------------------------
\* C30: the entry that set(key, value, ttl) inserted carries the ttl that was
\* passed, whatever its value (0 included), and default_ttl when none was
\* passed: it ends at the time of the call plus that value.
C30_EntryCarriesGivenTtl ==
  \A k \in Keys :
    (/\ lastSet[k].called
     /\ calculate_size(lastSet[k].value) <= max_size_bytes
     /\ k \in KeysOf(cache)) =>
       EntryOf(cache, k).timestamp + EntryOf(cache, k).ttl = lastSet[k].deadline

\* ------------------------------------------------------------------------
\* cleanup_expired
\* ------------------------------------------------------------------------
\* the entry is older than its TTL at the instant t
OlderThanTtl(e, t) == e.ttl # None /\ t - e.timestamp > e.ttl

\* C31: cleanup_expired removes exactly the entries older than their TTL,
\* returns their number, adds it to the expired counter, gives their bytes
\* back, and leaves the other entries, their order and the counters of hits,
\* misses and evictions as they were.
C31_CleanupRemovesExpired ==
  [][CacheCall("cleanup_expired") =>
       LET gone == SelectSeq(cache, LAMBDA e : OlderThanTtl(e, now))
           kept == SelectSeq(cache, LAMBDA e : ~OlderThanTtl(e, now))
       IN /\ cache' = kept
          /\ cacheOp'.n = Len(gone)
          /\ stats'.expired = stats.expired + Len(gone)
          /\ current_size' = current_size - SumSizes(gone)
          /\ stats'.hits = stats.hits
          /\ stats'.misses = stats.misses
          /\ stats'.evictions = stats.evictions]_vars

\* C31 witness: a cleanup removed one entry and kept two others, one of them
\* exactly as old as its TTL.
C31_Witness ==
  /\ cacheOp.op = "cleanup_expired" /\ cacheOp.n = 1
  /\ Len(cache) = 2
  /\ \E i \in 1..Len(cache) : now - cache[i].timestamp = cache[i].ttl
  /\ stats.expired = 1

\* ------------------------------------------------------------------------
\* The duration history of the monitor
\* ------------------------------------------------------------------------
\* C32: the duration history of an operation never holds more entries than
\* the capacity the monitor was constructed with (max_history), and the
\* statistics that get_operation_stats and get_metrics report for an
\* operation (count, min, max, latest) are those of the retained entries.
C32_HistoryWithinCapacity ==
  monitor.constructed =>
    /\ \A o \in DOMAIN monitor.operation_times :
         Len(monitor.operation_times[o]) <= monitor.max_history
    /\ (monitorOp.op = "get_operation_stats" /\ monitorOp.ret # Nil) =>
         LET times == monitor.operation_times[monitorOp.operation]
         IN /\ monitorOp.ret[1].count = Len(times)
            /\ monitorOp.ret[1].latest_ms = times[Len(times)]
    /\ monitorOp.op = "get_metrics" =>
         \A o \in DOMAIN monitor.operation_times :
           monitor.operation_times[o] # <<>> =>
             monitorOp.ret[o \o "_count"] = Len(monitor.operation_times[o])

\* ------------------------------------------------------------------------
\* Registrations that fail
\* ------------------------------------------------------------------------
\* C33: when register_plugin returns False, the registered plugins, the
\* signal index, the owned-signal sets and the subscriptions are what they
\* were before the call.
C33_FailedRegistrationChangesNothing ==
  [][(PMCall("register_plugin") /\ ~pmOp'.ret) =>
       /\ plugins' = plugins
       /\ signals' = signals
       /\ plugin_signals' = plugin_signals
       /\ signal_subscribers' = signal_subscribers]_vars

\* C34: register_plugin returns True exactly when the plugin is in the
\* registry at the return of the call.
C34_TrueIffRegistered ==
  [][PMCall("register_plugin") =>
       (pmOp'.ret <=> (/\ pmOp'.plugin_name \in DOMAIN plugins'
                       /\ plugins'[pmOp'.plugin_name] = pmOp'.plugin))]_vars

\* C35: the registry and the owned-signal map have the same plugin names, and
\* the signal index holds exactly the union of the owned-signal sets.
C35_RegistryConsistent ==
  /\ DOMAIN plugins = DOMAIN plugin_signals
  /\ DOMAIN signals = UNION {plugin_signals[n] : n \in DOMAIN plugin_signals}

\* ------------------------------------------------------------------------
\* The origin of the samples a query returns
\* ------------------------------------------------------------------------
\* C36: every sample in the map a query returns is the sample that a plugin
\* registered as owner of the signal at the time of the call produces for the
\* timestamp of the query; no sample of a plugin that was unregistered or
\* replaced is returned.
C36_SamplesFromCurrentOwner ==
  [][QueryCall =>
       \A n \in DOMAIN pmOp'.result :
         \E p \in OwningPlugins(n) :
           get_data_for_timestamp(p, n, pmOp'.timestamp, is_loaded[p])
             = Some(pmOp'.result[n])]_vars

\* ------------------------------------------------------------------------
\* Unloading a plugin that is still being called
\* ------------------------------------------------------------------------
\* the plugin object whose unload() the step executes: the one registered
\* under the name that the step unregisters or registers anew
Unloads(p) ==
  /\ calls' = calls + 1 /\ pmOp'.op \in {"register_plugin", "unregister_plugin"}
  /\ pmOp'.plugin_name \in DOMAIN plugins
  /\ plugins[pmOp'.plugin_name] = p

\* C37: unload() of a plugin is not executed while a get_data_for_timestamp
\* call dispatched to that plugin is running, abandoned calls included.
C37_NoUnloadDuringCall ==
  [][\A p \in PluginObjs : Unloads(p) => executor.on[p] = 0]_vars

\* ------------------------------------------------------------------------
\* Termination of shutdown
\* ------------------------------------------------------------------------
\* C38: a shutdown that has been called returns, also when a plugin call that
\* an earlier query abandoned is still running or never completes.
C38_ShutdownReturns ==
  (shutdownCall.pc # "idle") ~> (shutdownCall.pc = "done")
\* C39: a request_data_update call that has taken the lock returns and
\* gives the lock back, whether or not the plugin calls it dispatched
\* finish, and a register_plugin call waiting at the lock then runs.
C39_QueryReturnsAndReleases ==
  /\ (queryCall.pc # "idle") ~> (queryCall.pc = "idle")
  /\ (queryCall.pc # "idle" /\ queryCall.waiter # Nil) ~> (queryCall.waiter = Nil)

\* a query has returned with a call of its own still running in the pool,
\* and the plugin that waited at the lock meanwhile is registered
C39_Witness ==
  /\ queryCall.pc = "idle"
  /\ executor.pending > 0
  /\ pmOp.op = "register_plugin"
  /\ queryCall.waiter = Nil

\* the (signal, callback) pairs subscribed when the notification of the
\* query began, for the signals in the data of the query
SubscribedAtStart(op) ==
  {pr \in SignalNames \X Callbacks :
     /\ pr[1] \in DOMAIN collect(op.outcomes)
     /\ pr[1] \in DOMAIN op.subscribers
     /\ pr[2] \in op.subscribers[pr[1]]}

\* C40: when a listener subscribes or unsubscribes from inside its
\* callback, every listener subscribed to a signal of the result when the
\* notification began is still called for it, and the query returns the
\* map of the collected samples.
C40_ReentrantListenerHarmless ==
  [][(QueryCall /\ pmOp'.act # NoAct /\ ~pmOp'.hit) =>
       /\ \A pr \in SubscribedAtStart(pmOp') :
            \E i \in 1..Len(pmOp'.calls) :
              /\ pmOp'.calls[i].signal_name = pr[1]
              /\ pmOp'.calls[i].callback = pr[2]
       /\ pmOp'.result = collect(pmOp'.outcomes)]_vars

====
